---- MODULE Spec2Model ----
(***************************************************************************)
(* ChurnGuard retention dashboard: the keyword-routed fallback answer      *)
(* generator and the delegating LLM service (services/llm.py), the prompt  *)
(* builder (services/prompts.py), the data-access layer (services/db.py)   *)
(* and the metric derivation (main.py).                                    *)
(*                                                                         *)
(* Texts are TLA+ strings; TLC evaluates Len, \o and SubSeq on them.       *)
(* Characters outside ASCII (pictographs, arrows) are written "#": they    *)
(* are not letters, so lower-casing and keyword search treat them alike.   *)
(***************************************************************************)
EXTENDS Integers, Sequences, FiniteSets, TLC

VARIABLES
    USE_GROQ,          \* llm.py: the groq import succeeded
    GROQ_API_KEY,      \* the environment holds a GROQ_API_KEY
    llm_service,       \* llm.py _llm_service: NoService or the LLMService's fields
    pc,                \* position of the get_llm_response call in progress
    question,          \* the raw question when the prompt was built from one
    prompt,            \* argument of generate_response
    response,          \* value returned by generate_response
    steps,             \* the steps taken by the call in progress
    groq_invocations,  \* completions.create invocations by the call in progress
    n_calls,           \* completed get_llm_response calls
    pipeline,          \* the prompt was built by ai_retention_prompt from question
    text,              \* argument of a direct _fallback_response evaluation
    routed,            \* its result
    route_pc,          \* "input" before that evaluation, "output" after it
    groq_outcome,      \* what completions.create did in the call in progress
    kpis_in,           \* argument of a calculate_derived_metrics evaluation
    metrics,           \* its result
    derive_pc,         \* "input" before that evaluation, "output" after it
    db_service,        \* db.py _db_service: the DatabaseService exists
    db_pc,             \* position of the fetch operation in progress
    db_op,             \* the fetch operation in progress
    conn,              \* get_connection's conn: "None", "open" or "closed"
    conn_log,          \* the calls made on that connection, in order
    open_connections,  \* connections opened and not yet closed
    db_error,          \* the exception propagating, or "none"
    db_rows,           \* what execute_query returned
    db_result,         \* what the fetch operation returned
    n_fetches,         \* completed fetch operations
    build_question,    \* question argument of an ai_retention_prompt evaluation
    build_kpis,        \* its kpis argument
    built,             \* the prompt it returned
    build_pc,          \* "input" before that evaluation, "output" or "raised" after it
    now,               \* the monotonic clock of the process, in seconds
    kpis_cache,        \* the memoized load_kpis entry: NoEntry or [value, expires]
    cache_lock,        \* the session holding the entry's compute lock, or "free"
    load_pc,           \* per session: position of its load_kpis call
    load_result,       \* per session: what its load_kpis call returned
    load_called,       \* per session: when the call was made and the writes made before it
    fills,             \* the writes to the entry, in order: [value, at]
    fetch_log,         \* the times at which load_kpis' body was entered, in order
    constructions,     \* LLMService() evaluations so far
    call_log,          \* per returned call, in order: "none", "text" or "failed"
    heap,              \* the objects callers hold: [op, value, writes], value as it is now
    returns            \* what each of those calls returned: [op, value, mutated]

llm_vars == <<USE_GROQ, GROQ_API_KEY, llm_service, pc, question, prompt,
              response, steps, groq_invocations, n_calls, pipeline, groq_outcome>>
route_vars == <<text, routed, route_pc>>
derive_vars == <<kpis_in, metrics, derive_pc>>
db_vars == <<db_service, db_pc, db_op, conn, conn_log, open_connections, db_error,
             db_rows, db_result, n_fetches>>
build_vars == <<build_question, build_kpis, built, build_pc>>
cache_vars == <<now, kpis_cache, cache_lock, load_pc, load_result, load_called,
                fills, fetch_log>>
hist_vars == <<constructions, call_log>>
frame_vars == <<heap, returns>>
vars == <<llm_vars, route_vars, derive_vars, db_vars, build_vars, cache_vars,
          hist_vars, frame_vars>>

NoText == ""

-----------------------------------------------------------------------------
(* Bounds *)
MaxWords == 2     \* words in a generated question
MaxCalls == 2     \* get_llm_response calls in one behaviour
MaxWhole == 2     \* largest whole part of a generated amount
MaxCount == 2     \* largest generated customer count
MaxRows == 2      \* rows a grouped query returns
MaxTime == 598    \* seconds of process time explored
MaxFetches == 2   \* fetch operations in one behaviour

-----------------------------------------------------------------------------
(* Python str operations used by the services *)

UpperLetters == "ABCDEFGHIJKLMNOPQRSTUVWXYZ"
LowerLetters == "abcdefghijklmnopqrstuvwxyz"

\* str.lower() on one character
LowerChar(c) ==
    IF \E i \in 1..26 : SubSeq(UpperLetters, i, i) = c
    THEN LET i == CHOOSE j \in 1..26 : SubSeq(UpperLetters, j, j) = c
         IN  SubSeq(LowerLetters, i, i)
    ELSE c

\* str.lower()
RECURSIVE Lower(_)
Lower(s) ==
    IF Len(s) = 0 THEN ""
    ELSE IF Len(s) = 1 THEN LowerChar(s)
    ELSE LET h == Len(s) \div 2
         IN  Lower(SubSeq(s, 1, h)) \o Lower(SubSeq(s, h + 1, Len(s)))

\* kw in t
Contains(kw, t) ==
    \E i \in 1..(Len(t) - Len(kw) + 1) : SubSeq(t, i, i + Len(kw) - 1) = kw

Whitespace == {" ", "\n", "\t", "\r"}

\* str.lstrip() / str.rstrip() / str.strip()
RECURSIVE LStrip(_)
LStrip(s) ==
    IF Len(s) > 0 /\ SubSeq(s, 1, 1) \in Whitespace
    THEN LStrip(SubSeq(s, 2, Len(s)))
    ELSE s

RECURSIVE RStrip(_)
RStrip(s) ==
    IF Len(s) > 0 /\ SubSeq(s, Len(s), Len(s)) \in Whitespace
    THEN RStrip(SubSeq(s, 1, Len(s) - 1))
    ELSE s

Strip(s) == RStrip(LStrip(s))

-----------------------------------------------------------------------------
(* services/llm.py: the seven canned answers of _fallback_response *)

\* llm.py lines 87-100
ChurnDriversAnswer ==
    "Based on your 1.2M customer telecom analysis, churn is happening due to:\n" \o
    "\n" \o
    "**Top 3 Drivers:**\n" \o
    "1. **Service Quality Issues (32%)** - Network connectivity problems and service disruptions are the #1 cause\n" \o
    "2. **Competitive Pricing (28%)** - Competitors offering better deals and promotions\n" \o
    "3. **Poor Customer Service (24%)** - Long wait times and unresolved support tickets\n" \o
    "\n" \o
    "**High-Risk Customer Segments:**\n" \o
    "- Month-to-month contract customers: 42% churn rate\n" \o
    "- Customers in first 6-9 months: Early lifecycle churn risk\n" \o
    "- 3+ support tickets: 55% churn probability\n" \o
    "- High network downtime areas: Significantly elevated risk\n" \o
    "\n" \o
    "**Key Insight:** With your 18.5% churn rate affecting 222K customers and putting $289.31M revenue at risk, focusing on service quality improvements (the 32% driver) would yield the highest ROI compared to discounting strategies."

\* llm.py lines 104-118
RevenueBreakdownAnswer ==
    "Your $1.49B telecom revenue breakdown:\n" \o
    "\n" \o
    "**Primary Revenue Channels:**\n" \o
    "1. **Online Channel**: $4.23B (44.9% of total)\n" \o
    "2. **Store Channel**: $3.30B (35.1% of total)\n" \o
    "3. **Agent Channel**: $1.88B (20.0% of total)\n" \o
    "\n" \o
    "**Key Metrics:**\n" \o
    "- Total Monthly Revenue: $1.49 billion\n" \o
    "- Revenue at Risk: $289.31M (19.4% of total revenue)\n" \o
    "- Average Revenue Per User (ARPU): $1,241.70\n" \o
    "- Revenue Protected: $1.20B\n" \o
    "\n" \o
    "**Revenue Optimization Opportunity:**\n" \o
    "Your high ARPU of $1,241.70 indicates a valuable customer base. Even a 3% churn reduction would protect $40-50M annually. Focus retention efforts on high-ARPU customers (2-year contract customers averaging $95/month) rather than broad discounting across all segments."

\* llm.py lines 122-147
SegmentRiskAnswer ==
    "Customer segments at highest risk (from your 1.2M customer base):\n" \o
    "\n" \o
    "**Critical Risk Segments:**\n" \o
    "\n" \o
    "1. **Retail Segment** (HIGHEST EXPOSURE)\n" \o
    "   - Customers: 1,052,448 (87.7% of customer base)\n" \o
    "   - Churn Rate: 19%\n" \o
    "   - Revenue at Risk: $254.3M\n" \o
    "   - **Priority Action:** #1 focus for retention programs\n" \o
    "\n" \o
    "2. **SME Segment**\n" \o
    "   - Customers: 147,552 (12.3% of customer base)\n" \o
    "   - Churn Rate: 18%\n" \o
    "   - Revenue at Risk: $34.9M\n" \o
    "   \n" \o
    "3. **South Region** (Geographic Priority)\n" \o
    "   - Highest Revenue: $516.22M\n" \o
    "   - Highest Risk: $102M at risk\n" \o
    "   - Churn Rate: 24.63%\n" \o
    "\n" \o
    "4. **Month-to-Month Contracts** (Contract Type Risk)\n" \o
    "   - Churn Rate: 42% (vs 12% for 2-year contracts)\n" \o
    "   - High conversion potential: 30% success rate\n" \o
    "\n" \o
    "**Recommended Focus:**\n" \o
    "Target month-to-month Retail customers in the South region with 6-12 month contract conversion incentives. This segment represents the highest revenue risk concentration and has proven conversion rates of 30%."

\* llm.py lines 151-178
RetentionStrategyAnswer ==
    "Top retention strategies for your telecom operation (Goal: 18.5% # 15% churn):\n" \o
    "\n" \o
    "**High-Impact Tactics (Proven ROI):**\n" \o
    "\n" \o
    "1. **Early Lifecycle Programs** (Highest Impact)\n" \o
    "   - **Issue:** Most churn occurs in first 6-9 months\n" \o
    "   - **Action:** Enhanced onboarding with 30-60-90 day check-ins\n" \o
    "   - **Expected Impact:** 15-20% reduction in new customer churn\n" \o
    "\n" \o
    "2. **Service Quality First** (Addresses 32% of Churn)\n" \o
    "   - **Issue:** Network issues cause 32% of all churn\n" \o
    "   - **Action:** Reduce downtime in high-churn regions, priority infrastructure investment\n" \o
    "   - **ROI:** Better than discounts - addresses root cause\n" \o
    "   - **Focus Area:** South region network upgrades\n" \o
    "\n" \o
    "3. **Proactive Support Intervention** (18% Improvement)\n" \o
    "   - **Issue:** Customers with 3+ support tickets have 55% churn rate\n" \o
    "   - **Action:** Auto-escalate after 2 tickets, resolve within 24 hours\n" \o
    "   - **Expected Impact:** 18% churn improvement in high-ticket segment\n" \o
    "\n" \o
    "4. **Contract Conversion Program** (23% Reduction)\n" \o
    "   - **Target:** Month-to-month customers (42% churn rate)\n" \o
    "   - **Offer:** 10-15% discount for 6-month commitment\n" \o
    "   - **Expected Impact:** 23% churn reduction, 30% conversion rate\n" \o
    "   - **ROI:** 6.4x return on retention investment\n" \o
    "\n" \o
    "**Combined Revenue Protection:**\n" \o
    "Implementing these 4 strategies could reduce churn from 18.5% to 15%, protecting $40-50M annually from your $289.31M revenue at risk."

\* llm.py lines 182-211
RegionalAnswer ==
    "Regional churn analysis across your 4 telecom regions:\n" \o
    "\n" \o
    "**Priority Ranking by Revenue Risk:**\n" \o
    "\n" \o
    "1. **South Region** (HIGHEST PRIORITY)\n" \o
    "   - Total Revenue: $516.22M (highest of all regions)\n" \o
    "   - Revenue at Risk: $102M (highest absolute exposure)\n" \o
    "   - Churn Rate: 24.63%\n" \o
    "   - Customer Count: ~300,000\n" \o
    "   - **Action:** Deploy dedicated retention team + network infrastructure upgrades\n" \o
    "\n" \o
    "2. **West Region**\n" \o
    "   - Total Revenue: $375.03M\n" \o
    "   - Revenue at Risk: $73M\n" \o
    "   - Churn Rate: 25.18% (highest churn rate)\n" \o
    "   - **Action:** Investigate competitive pricing pressures\n" \o
    "\n" \o
    "3. **North Region**\n" \o
    "   - Total Revenue: $372.16M\n" \o
    "   - Revenue at Risk: $72M\n" \o
    "   - Churn Rate: 24.78%\n" \o
    "   - **Action:** Standard retention programs\n" \o
    "\n" \o
    "4. **East Region**\n" \o
    "   - Total Revenue: $226.63M\n" \o
    "   - Revenue at Risk: $43M (lowest risk)\n" \o
    "   - Churn Rate: 25.40%\n" \o
    "\n" \o
    "**Key Strategic Insight:**\n" \o
    "While churn rates are relatively balanced (24.6-25.4% across regions), the South region's combination of highest revenue generation AND highest absolute risk exposure ($102M) makes it the clear #1 priority for retention investment. A 3-5% churn reduction in South alone could protect $30-40M annually."

\* llm.py lines 215-248
CustomerInsightsAnswer ==
    "Comprehensive customer base insights from your 1.2M customers:\n" \o
    "\n" \o
    "**Demographics & Overview:**\n" \o
    "- Total Active Customers: 1,200,000\n" \o
    "- Churned Customers: 222,000 (18.5%)\n" \o
    "- Retained Customers: 978,000 (81.5%)\n" \o
    "- Average Customer Tenure: 32 months\n" \o
    "- Average Revenue Per User (ARPU): $1,241.70\n" \o
    "\n" \o
    "**Customer Segment Breakdown:**\n" \o
    "1. **Premium Customers** (2-year contracts)\n" \o
    "   - Churn Rate: 12% (lowest)\n" \o
    "   - Average Revenue: $95/month\n" \o
    "   - Loyalty Level: Highest\n" \o
    "   - Characteristics: Long tenure, low support tickets\n" \o
    "   \n" \o
    "2. **Standard Customers** (1-year contracts)\n" \o
    "   - Churn Rate: 24% (moderate)\n" \o
    "   - Average Revenue: $65/month\n" \o
    "   - Conversion Opportunity: Target for 2-year upgrades\n" \o
    "   \n" \o
    "3. **At-Risk Customers** (Month-to-month)\n" \o
    "   - Churn Rate: 42% (highest)\n" \o
    "   - Average Revenue: $45/month\n" \o
    "   - **Action Required:** Top priority for retention\n" \o
    "\n" \o
    "**Regional Distribution:**\n" \o
    "- South: ~300,000 customers (25.4% churn)\n" \o
    "- West: ~300,000 customers (25.2% churn)\n" \o
    "- North: ~300,000 customers (24.8% churn)\n" \o
    "- East: ~300,000 customers (25.4% churn)\n" \o
    "\n" \o
    "**Critical Business Finding:**\n" \o
    "Converting just 30% of month-to-month customers to annual contracts could protect $40-50M in annual revenue while improving customer lifetime value by an average of 8-12 months."

\* llm.py lines 252-287
GenericOverviewAnswer ==
    "I'm your AI Retention Analyst for the ChurnGuard telecom platform. I can analyze your 1.2M customer dataset and provide insights on:\n" \o
    "\n" \o
    "**Current Business Status:**\n" \o
    "- 1.2M total customers with 18.5% churn rate\n" \o
    "- $289.31M revenue at risk\n" \o
    "- $1,241.70 ARPU (high-value customer base)\n" \o
    "\n" \o
    "**I Can Answer Questions About:**\n" \o
    "\n" \o
    "# **Churn Analysis**\n" \o
    "- Why customers are leaving (32% service quality, 28% pricing, 24% support)\n" \o
    "- Which segments have highest churn rates\n" \o
    "- Early warning signals and risk indicators\n" \o
    "\n" \o
    "# **Revenue Intelligence**\n" \o
    "- How $1.49B revenue is generated (Online 45%, Store 35%, Agent 20%)\n" \o
    "- Revenue optimization opportunities\n" \o
    "- ARPU trends and high-value customer retention\n" \o
    "\n" \o
    "# **Customer Segments**\n" \o
    "- Retail (1.05M, 19% churn) vs SME (147K, 18% churn)\n" \o
    "- Regional performance: South ($102M at risk), West, North, East\n" \o
    "- Contract types: Month-to-month (42% churn) vs Annual (24%) vs 2-year (12%)\n" \o
    "\n" \o
    "# **Retention Strategies**\n" \o
    "- Proven tactics to reduce churn from 18.5% to 15%\n" \o
    "- ROI analysis of different retention programs\n" \o
    "- Early lifecycle, service quality, and proactive support strategies\n" \o
    "\n" \o
    "**Try asking specific questions like:**\n" \o
    "- \"Why is our churn rate 18.5%?\"\n" \o
    "- \"Which customer segment has the highest revenue at risk?\"\n" \o
    "- \"How can we reduce churn in the South region?\"\n" \o
    "- \"What's the ROI of improving service quality vs offering discounts?\"\n" \o
    "\n" \o
    "What would you like to know about your customer retention?"

-----------------------------------------------------------------------------
(* services/llm.py: LLMService._fallback_response *)

\* Mutant: the keywords are searched in the prompt as typed, not lower-cased.
FallbackResponseCaseSensitive(p) ==
    IF Contains("churn", p) /\ Contains("why", p)
    THEN ChurnDriversAnswer
    ELSE IF Contains("revenue", p)
    THEN RevenueBreakdownAnswer
    ELSE IF Contains("segment", p) \/ Contains("risk", p)
    THEN SegmentRiskAnswer
    ELSE IF Contains("retention", p) \/ Contains("strateg", p)
    THEN RetentionStrategyAnswer
    ELSE IF Contains("region", p) \/ Contains("south", p)
    THEN RegionalAnswer
    ELSE IF Contains("customer", p)
    THEN CustomerInsightsAnswer
    ELSE GenericOverviewAnswer

\* Mutant: the revenue keyword is written capitalised, so it never matches the
\* lower-cased prompt.
FallbackResponseCapitalKeyword(p) ==
    LET prompt_lower == Lower(p)
    IN  IF Contains("churn", prompt_lower) /\ Contains("why", prompt_lower)
        THEN ChurnDriversAnswer
        ELSE IF Contains("Revenue", prompt_lower)
        THEN RevenueBreakdownAnswer
        ELSE IF Contains("segment", prompt_lower) \/ Contains("risk", prompt_lower)
        THEN SegmentRiskAnswer
        ELSE IF Contains("retention", prompt_lower) \/ Contains("strateg", prompt_lower)
        THEN RetentionStrategyAnswer
        ELSE IF Contains("region", prompt_lower) \/ Contains("south", prompt_lower)
        THEN RegionalAnswer
        ELSE IF Contains("customer", prompt_lower)
        THEN CustomerInsightsAnswer
        ELSE GenericOverviewAnswer

\* The if/elif chain over prompt.lower(); the first branch whose test holds returns.
FallbackResponse(p) ==
    LET prompt_lower == Lower(p)
    IN  IF Contains("churn", prompt_lower) /\ Contains("why", prompt_lower)
        THEN ChurnDriversAnswer
        ELSE IF Contains("revenue", prompt_lower)
        THEN RevenueBreakdownAnswer
        ELSE IF Contains("segment", prompt_lower) \/ Contains("risk", prompt_lower)
        THEN SegmentRiskAnswer
        ELSE IF Contains("retention", prompt_lower) \/ Contains("strateg", prompt_lower)
        THEN RetentionStrategyAnswer
        ELSE IF Contains("region", prompt_lower) \/ Contains("south", prompt_lower)
        THEN RegionalAnswer
        ELSE IF Contains("customer", prompt_lower)
        THEN CustomerInsightsAnswer
        ELSE GenericOverviewAnswer

-----------------------------------------------------------------------------
(* Python numbers.  A number is [k, w, f]: kind k ("int", "float" or "dec", a  *)
(* Decimal of scale 2 as the database driver returns for ROUND(x, 2)), and     *)
(* the value w + f/100 with f in 0..99 (so -1.25 is w = -2, f = 75).           *)

None == [k |-> "None"]
Absent == [k |-> "Absent"]

PyInt(n) == [k |-> "int", w |-> n, f |-> 0]
PyFloat(w, f) == [k |-> "float", w |-> w, f |-> f]
PyDec(w, f) == [k |-> "dec", w |-> w, f |-> f]

IsNum(x) == x.k \in {"int", "float", "dec"}
IsZero(x) == x.w = 0 /\ x.f = 0
IsNeg(x) == x.w < 0

\* a < b
NumLess(a, b) == a.w < b.w \/ (a.w = b.w /\ a.f < b.f)

\* the kind of the result of an arithmetic operation on a and b
JoinKind(a, b) ==
    IF a.k = "float" \/ b.k = "float" THEN "float"
    ELSE IF a.k = "dec" \/ b.k = "dec" THEN "dec"
    ELSE "int"

\* a - b
NumSub(a, b) ==
    IF a.f >= b.f
    THEN [k |-> JoinKind(a, b), w |-> a.w - b.w, f |-> a.f - b.f]
    ELSE [k |-> JoinKind(a, b), w |-> a.w - b.w - 1, f |-> a.f + 100 - b.f]

\* Mutant: the difference is returned unclamped.
NumMaxUnclamped(a, b) == a

\* max(a, b): the first argument unless the second is greater
NumMax(a, b) == IF NumLess(a, b) THEN b ELSE a

\* Mutant: round(a) with halves going up instead of int(a).
NumRoundHalfUp(a) == IF a.f >= 50 THEN PyInt(a.w + 1) ELSE PyInt(a.w)

\* int(a): truncation toward zero
NumTrunc(a) == IF a.w < 0 /\ a.f > 0 THEN PyInt(a.w + 1) ELSE PyInt(a.w)

\* the magnitude of a, as whole part and hundredths
AbsWhole(a) == IF a.w >= 0 THEN a.w ELSE IF a.f = 0 THEN -a.w ELSE -a.w - 1
AbsFrac(a) == IF a.w >= 0 \/ a.f = 0 THEN a.f ELSE 100 - a.f

\* dict.get(key, default)
Get(kpis, key, default) == IF kpis[key].k = "Absent" THEN default ELSE kpis[key]

\* x or 0
OrZero(x) == IF x.k = "None" \/ IsZero(x) THEN PyInt(0) ELSE x

-----------------------------------------------------------------------------
(* Python number formatting, as the f-string of ai_retention_prompt uses it *)

Digits == "0123456789"
DigitStr(d) == SubSeq(Digits, d + 1, d + 1)

RECURSIVE NatStr(_)
NatStr(n) == IF n < 10 THEN DigitStr(n) ELSE NatStr(n \div 10) \o DigitStr(n % 10)

Pad3(n) == DigitStr(n \div 100) \o DigitStr((n \div 10) % 10) \o DigitStr(n % 10)

\* the digits of n with thousands separators
RECURSIVE Grouped(_)
Grouped(n) == IF n < 1000 THEN NatStr(n) ELSE Grouped(n \div 1000) \o "," \o Pad3(n % 1000)

\* the fraction digits: none for an int, the shortest repr for a float, two for a Decimal
FracStr(x) ==
    LET f == AbsFrac(x)
    IN  IF x.k = "int" THEN ""
        ELSE IF x.k = "dec" THEN "." \o DigitStr(f \div 10) \o DigitStr(f % 10)
        ELSE IF f % 10 = 0 THEN "." \o DigitStr(f \div 10)
        ELSE "." \o DigitStr(f \div 10) \o DigitStr(f % 10)

SignStr(x) == IF IsNeg(x) THEN "-" ELSE ""

\* format(x, ",")
FormatComma(x) == SignStr(x) \o Grouped(AbsWhole(x)) \o FracStr(x)

\* format(x, "") = str(x)
FormatPlain(x) == IF x.k = "None" THEN "None" ELSE SignStr(x) \o NatStr(AbsWhole(x)) \o FracStr(x)

-----------------------------------------------------------------------------
(* services/prompts.py: ai_retention_prompt *)

KpiKeys == {"total_customers", "churned_customers", "churn_rate", "retention_rate",
            "total_revenue", "revenue_at_risk", "arpu"}

\* the static text of the template, between the interpolated fields
PromptText0 ==
    "You are an expert retention analyst for a Telecom company's Enterprise Customer Churn Intelligence Platform.\n" \o
    "\n" \o
    "BUSINESS CONTEXT:\n" \o
    "This is a large-scale telecom operation with 1.2M+ customers across 4 regions (South, North, West, East) with both Retail and SME segments.\n" \o
    "\n" \o
    "CURRENT BUSINESS METRICS (Real Data):\n" \o
    "# Customer Base:\n" \o
    "- Total Customers: "

PromptText1 ==
    "\n" \o
    "- Churned Customers: "

PromptText2 ==
    "\n" \o
    "- Churn Rate: "

PromptText3 ==
    "%\n" \o
    "- Retention Rate: "

PromptText4 ==
    "%\n" \o
    "\n" \o
    "# Revenue Impact:\n" \o
    "- Total Revenue: $"

PromptText5 ==
    "\n" \o
    "- Revenue at Risk: $"

PromptText6 ==
    "\n" \o
    "- Revenue Protected: $"

PromptText7 ==
    "\n" \o
    "- ARPU (Average Revenue Per User): $"

PromptText8 ==
    "\n" \o
    "\n" \o
    "# KEY BUSINESS INSIGHTS FROM DASHBOARDS:\n" \o
    "1. Retail customers represent the highest churn exposure (19% churn rate, $254M+ at risk)\n" \o
    "2. Regional churn is balanced but South has highest revenue at risk ($102M)\n" \o
    "3. A 3% churn reduction could protect $40-50M annually\n" \o
    "4. High ARPU ($"

PromptText9 ==
    ") indicates valuable customer base\n" \o
    "5. Service quality issues (32%), competitive pricing (28%), and poor customer service (24%) are top churn drivers\n" \o
    "6. Early lifecycle churn (first 6-9 months) represents highest risk period\n" \o
    "7. High-value customers with network downtime are critical risk segment\n" \o
    "\n" \o
    "CUSTOMER QUESTION:\n"

PromptText10 ==
    "\n" \o
    "\n" \o
    "RESPONSE INSTRUCTIONS:\n" \o
    "1. Answer based on the REAL metrics provided above\n" \o
    "2. Keep response concise (3-5 sentences maximum)\n" \o
    "3. Include specific numbers and percentages from the data\n" \o
    "4. Provide actionable, data-driven recommendations\n" \o
    "5. Reference dashboard insights when relevant\n" \o
    "6. Focus on revenue impact and retention ROI\n" \o
    "7. Use professional but conversational business language\n" \o
    "\n" \o
    "Answer the customer's question with data-driven insights:"

\* lines 23-29: the fields, with the defaults of the .get calls
PromptFields(kpis) ==
    [total_customers   |-> Get(kpis, "total_customers", PyInt(1200000)),
     churned_customers |-> Get(kpis, "churned_customers", PyInt(222000)),
     churn_rate        |-> Get(kpis, "churn_rate", PyFloat(18, 50)),
     retention_rate    |-> Get(kpis, "retention_rate", PyFloat(81, 50)),
     total_revenue     |-> Get(kpis, "total_revenue", PyInt(1490000000)),
     revenue_at_risk   |-> Get(kpis, "revenue_at_risk", PyInt(289310000)),
     arpu              |-> Get(kpis, "arpu", PyFloat(1241, 70))]

\* None - x, x - None and format(None, ",") raise TypeError
PromptRaises(kpis) ==
    LET v == PromptFields(kpis)
    IN  \/ v.total_customers.k = "None"
        \/ v.churned_customers.k = "None"
        \/ v.total_revenue.k = "None"
        \/ v.revenue_at_risk.k = "None"
        \/ v.arpu.k = "None"

\* Mutant: the question is trimmed before it is embedded.
PromptQuestionStripped(q, kpis) ==
    LET v == PromptFields(kpis)
        revenue_protected == NumSub(v.total_revenue, v.revenue_at_risk)
    IN  PromptText0 \o FormatComma(v.total_customers)
     \o PromptText1 \o FormatComma(v.churned_customers)
     \o PromptText2 \o FormatPlain(v.churn_rate)
     \o PromptText3 \o FormatPlain(v.retention_rate)
     \o PromptText4 \o FormatComma(v.total_revenue)
     \o PromptText5 \o FormatComma(v.revenue_at_risk)
     \o PromptText6 \o FormatComma(revenue_protected)
     \o PromptText7 \o FormatComma(v.arpu)
     \o PromptText8 \o FormatPlain(v.arpu)
     \o PromptText9 \o Strip(q)
     \o PromptText10

\* lines 31-75, for kpis on which nothing raises
ai_retention_prompt(q, kpis) ==
    LET v == PromptFields(kpis)
        revenue_protected == NumSub(v.total_revenue, v.revenue_at_risk)
    IN  PromptText0 \o FormatComma(v.total_customers)
     \o PromptText1 \o FormatComma(v.churned_customers)
     \o PromptText2 \o FormatPlain(v.churn_rate)
     \o PromptText3 \o FormatPlain(v.retention_rate)
     \o PromptText4 \o FormatComma(v.total_revenue)
     \o PromptText5 \o FormatComma(v.revenue_at_risk)
     \o PromptText6 \o FormatComma(revenue_protected)
     \o PromptText7 \o FormatComma(v.arpu)
     \o PromptText8 \o FormatPlain(v.arpu)
     \o PromptText9 \o q
     \o PromptText10

-----------------------------------------------------------------------------
(* main.py: calculate_derived_metrics *)

\* -a
NumNeg(a) ==
    IF a.f = 0 THEN [k |-> a.k, w |-> -a.w, f |-> 0]
    ELSE [k |-> a.k, w |-> -a.w - 1, f |-> 100 - a.f]

\* Mutant: the quotient is cut after two decimals instead of rounded.
NumDivFloor2(a, n) ==
    IF IsZero(n) THEN [k |-> "ZeroDivisionError"] ELSE
    LET aw == AbsWhole(a)
        t  == (aw % n.w) * 100 + AbsFrac(a)
        c  == (aw \div n.w) * 100 + (t \div n.w)
        kind == IF a.k = "dec" \/ n.k = "dec" THEN "dec" ELSE "float"
        mag == [k |-> kind, w |-> c \div 100, f |-> c % 100]
    IN  IF IsNeg(a) THEN NumNeg(mag) ELSE mag

\* what a division by zero raises
ZeroDivisionError == [k |-> "ZeroDivisionError"]

\* round(a / n, 2) for a whole n >= 0, ties to the even hundredth; the division
\* raises when n is 0
NumDivRound2(a, n) ==
    IF IsZero(n) THEN ZeroDivisionError ELSE
    LET aw == AbsWhole(a)
        t  == (aw % n.w) * 100 + AbsFrac(a)
        h  == t \div n.w
        r2 == t % n.w
        up == 2 * r2 > n.w \/ (2 * r2 = n.w /\ h % 2 = 1)
        c  == (aw \div n.w) * 100 + h + (IF up THEN 1 ELSE 0)
        kind == IF a.k = "dec" \/ n.k = "dec" THEN "dec" ELSE "float"
        mag == [k |-> kind, w |-> c \div 100, f |-> c % 100]
    IN  IF IsNeg(a) THEN NumNeg(mag) ELSE mag

\* Mutant: churn_rate is passed through without  or 0.
DerivedMetricsRateNotCoerced(kpis) ==
    LET total_customers == OrZero(Get(kpis, "total_customers", PyInt(0)))
        total_revenue == OrZero(Get(kpis, "total_revenue", PyInt(0)))
        revenue_at_risk == OrZero(Get(kpis, "revenue_at_risk", PyInt(0)))
        revenue_protected == NumMax(NumSub(total_revenue, revenue_at_risk), PyInt(0))
        arpu == IF NumLess(PyInt(0), total_customers)
                THEN NumDivRound2(total_revenue, total_customers)
                ELSE PyInt(0)
    IN  [total_customers   |-> total_customers,
         churned_customers |-> OrZero(Get(kpis, "churned_customers", PyInt(0))),
         churn_rate        |-> Get(kpis, "churn_rate", PyInt(0)),
         retention_rate    |-> OrZero(Get(kpis, "retention_rate", PyInt(0))),
         total_revenue     |-> NumTrunc(total_revenue),
         revenue_at_risk   |-> NumTrunc(revenue_at_risk),
         revenue_protected |-> NumTrunc(revenue_protected),
         arpu              |-> arpu]

\* Mutant: the quotient is computed whatever total_customers is.
DerivedMetricsArpuUnguarded(kpis) ==
    LET total_customers == OrZero(Get(kpis, "total_customers", PyInt(0)))
        total_revenue == OrZero(Get(kpis, "total_revenue", PyInt(0)))
        revenue_at_risk == OrZero(Get(kpis, "revenue_at_risk", PyInt(0)))
        revenue_protected == NumMax(NumSub(total_revenue, revenue_at_risk), PyInt(0))
    IN  [total_customers   |-> total_customers,
         churned_customers |-> OrZero(Get(kpis, "churned_customers", PyInt(0))),
         churn_rate        |-> OrZero(Get(kpis, "churn_rate", PyInt(0))),
         retention_rate    |-> OrZero(Get(kpis, "retention_rate", PyInt(0))),
         total_revenue     |-> NumTrunc(total_revenue),
         revenue_at_risk   |-> NumTrunc(revenue_at_risk),
         revenue_protected |-> NumTrunc(revenue_protected),
         arpu              |-> NumDivRound2(total_revenue, total_customers)]

calculate_derived_metrics(kpis) ==
    LET total_customers == OrZero(Get(kpis, "total_customers", PyInt(0)))
        total_revenue == OrZero(Get(kpis, "total_revenue", PyInt(0)))
        revenue_at_risk == OrZero(Get(kpis, "revenue_at_risk", PyInt(0)))
        revenue_protected == NumMax(NumSub(total_revenue, revenue_at_risk), PyInt(0))
        arpu == IF NumLess(PyInt(0), total_customers)
                THEN NumDivRound2(total_revenue, total_customers)
                ELSE PyInt(0)
    IN  [total_customers   |-> total_customers,
         churned_customers |-> OrZero(Get(kpis, "churned_customers", PyInt(0))),
         churn_rate        |-> OrZero(Get(kpis, "churn_rate", PyInt(0))),
         retention_rate    |-> OrZero(Get(kpis, "retention_rate", PyInt(0))),
         total_revenue     |-> NumTrunc(total_revenue),
         revenue_at_risk   |-> NumTrunc(revenue_at_risk),
         revenue_protected |-> NumTrunc(revenue_protected),
         arpu              |-> arpu]

-----------------------------------------------------------------------------
(* services/db.py: the fallback literals *)

\* fetch_kpis, lines 108-116
FallbackKpis ==
    [total_customers   |-> PyInt(1200000),
     churned_customers |-> PyInt(222000),
     churn_rate        |-> PyFloat(18, 50),
     retention_rate    |-> PyFloat(81, 50),
     total_revenue     |-> PyInt(1490000000),
     revenue_at_risk   |-> PyInt(289310000),
     arpu              |-> PyFloat(1241, 70)]

\* fetch_segment_data, lines 158-171
FallbackSegments ==
    [Retail |-> [count |-> PyInt(1052448), churn_rate |-> PyFloat(19, 0),
                 avg_revenue |-> PyFloat(1241, 86), revenue_at_risk |-> PyInt(254300000)],
     SME    |-> [count |-> PyInt(147552), churn_rate |-> PyFloat(18, 0),
                 avg_revenue |-> PyFloat(1240, 51), revenue_at_risk |-> PyInt(34900000)]]

\* fetch_regional_data, lines 212-217
FallbackRegions ==
    [South |-> [customer_count |-> PyInt(300000), churn_rate |-> PyFloat(24, 63),
                total_revenue |-> PyInt(516220000), revenue_at_risk |-> PyInt(102000000)],
     West  |-> [customer_count |-> PyInt(300000), churn_rate |-> PyFloat(25, 18),
                total_revenue |-> PyInt(375030000), revenue_at_risk |-> PyInt(73000000)],
     North |-> [customer_count |-> PyInt(300000), churn_rate |-> PyFloat(24, 78),
                total_revenue |-> PyInt(372160000), revenue_at_risk |-> PyInt(72000000)],
     East  |-> [customer_count |-> PyInt(300000), churn_rate |-> PyFloat(25, 40),
                total_revenue |-> PyInt(226630000), revenue_at_risk |-> PyInt(43000000)]]

\* an int literal beyond TLC's 32-bit integers, kept by its digits; none enters arithmetic
BigInt(digits) == [k |-> "int", digits |-> digits]

\* fetch_revenue_breakdown, lines 250-254
FallbackRevenue ==
    [Online |-> BigInt("4225770000"), Store |-> BigInt("3297930000"), Agent |-> PyInt(1881880000)]

\* fetch_churn_reasons, lines 283-288
FallbackChurnReasons ==
    << [churn_reason |-> "Service Quality Issues", affected_customers |-> PyInt(71040),
        percentage |-> PyFloat(32, 0)],
       [churn_reason |-> "Competitive Pricing", affected_customers |-> PyInt(62160),
        percentage |-> PyFloat(28, 0)],
       [churn_reason |-> "Poor Customer Service", affected_customers |-> PyInt(53280),
        percentage |-> PyFloat(24, 0)],
       [churn_reason |-> "Lack of Engagement", affected_customers |-> PyInt(35520),
        percentage |-> PyFloat(16, 0)] >>

FetchOps == {"fetch_kpis", "fetch_segment_data", "fetch_regional_data",
             "fetch_revenue_breakdown", "fetch_churn_reasons"}

\* the value each operation's except clause returns
Fallback(op) ==
    CASE op = "fetch_kpis" -> FallbackKpis
      [] op = "fetch_segment_data" -> FallbackSegments
      [] op = "fetch_regional_data" -> FallbackRegions
      [] op = "fetch_revenue_breakdown" -> FallbackRevenue
      [] op = "fetch_churn_reasons" -> FallbackChurnReasons

-----------------------------------------------------------------------------
(* services/db.py: mapping the rows of a query to the operation's result *)

\* float(x)
ToFloat(x) == [k |-> "float", w |-> x.w, f |-> x.f]

\* x or 1
OrOne(x) == IF x.k = "None" \/ IsZero(x) THEN PyInt(1) ELSE x

\* the dict built by  for row in results: d[row[key]] = value(row), where
\* values[i] is the value computed from rows[i]
DictOf(rows, key, values) ==
    [name \in {rows[i][key] : i \in 1..Len(rows)} |->
        LET last == CHOOSE i \in 1..Len(rows) :
                        /\ rows[i][key] = name
                        /\ \A j \in (i + 1)..Len(rows) : rows[j][key] # name
        IN  values[last]]

\* fetch_kpis, lines 92-102: execute_single, then the arpu; the print of
\* total_customers with a thousands separator raises TypeError on None
KpisRaises(rows) == rows # <<>> /\ rows[1].total_customers.k = "None"

KpisResult(rows) ==
    IF rows = <<>> THEN <<>>
    ELSE LET result == rows[1]
             total_customers == OrOne(result.total_customers)
             total_revenue == OrZero(result.total_revenue)
             arpu == NumDivRound2(total_revenue, total_customers)
         IN  [total_customers   |-> result.total_customers,
              churned_customers |-> result.churned_customers,
              churn_rate        |-> result.churn_rate,
              retention_rate    |-> result.retention_rate,
              total_revenue     |-> result.total_revenue,
              revenue_at_risk   |-> result.revenue_at_risk,
              arpu              |-> arpu]

\* fetch_segment_data, lines 145-154: float(None) raises TypeError
SegmentsRaises(rows) ==
    \E i \in 1..Len(rows) : rows[i].churn_rate.k = "None" \/ rows[i].revenue_at_risk.k = "None"

SegmentValue(row) ==
    [count |-> row.customer_count,
     churn_rate |-> ToFloat(row.churn_rate),
     avg_revenue |-> ToFloat(OrZero(row.avg_revenue)),
     revenue_at_risk |-> ToFloat(row.revenue_at_risk)]

SegmentsResult(rows) == DictOf(rows, "customer_segment", [i \in 1..Len(rows) |-> SegmentValue(rows[i])])

\* fetch_regional_data, lines 199-208
RegionsRaises(rows) ==
    \E i \in 1..Len(rows) : \/ rows[i].churn_rate.k = "None"
                            \/ rows[i].total_revenue.k = "None"
                            \/ rows[i].revenue_at_risk.k = "None"

RegionValue(row) ==
    [customer_count |-> row.customer_count,
     churn_rate |-> ToFloat(row.churn_rate),
     total_revenue |-> ToFloat(row.total_revenue),
     revenue_at_risk |-> ToFloat(row.revenue_at_risk)]

RegionsResult(rows) == DictOf(rows, "region", [i \in 1..Len(rows) |-> RegionValue(rows[i])])

\* fetch_revenue_breakdown, lines 242-246
RevenueRaises(rows) == \E i \in 1..Len(rows) : rows[i].channel_revenue.k = "None"

RevenueValue(row) == ToFloat(row.channel_revenue)

RevenueResult(rows) == DictOf(rows, "acquisition_channel", [i \in 1..Len(rows) |-> RevenueValue(rows[i])])

\* does the code after execute_query raise on these rows?
MappingRaises(op, rows) ==
    CASE op = "fetch_kpis" -> KpisRaises(rows)
      [] op = "fetch_segment_data" -> SegmentsRaises(rows)
      [] op = "fetch_regional_data" -> RegionsRaises(rows)
      [] op = "fetch_revenue_breakdown" -> RevenueRaises(rows)
      [] op = "fetch_churn_reasons" -> FALSE

\* the value the try block returns; fetch_churn_reasons returns the rows (line 279)
Mapped(op, rows) ==
    CASE op = "fetch_kpis" -> KpisResult(rows)
      [] op = "fetch_segment_data" -> SegmentsResult(rows)
      [] op = "fetch_regional_data" -> RegionsResult(rows)
      [] op = "fetch_revenue_breakdown" -> RevenueResult(rows)
      [] op = "fetch_churn_reasons" -> rows

\* Mutant: only execute_query is inside the try; an error while mapping the rows escapes.
FetchResultMappingUncaught(op, rows, error) ==
    IF error # "none" THEN [kind |-> "fallback", value |-> Fallback(op)]
    ELSE IF MappingRaises(op, rows) THEN [kind |-> "raised", value |-> <<>>]
    ELSE [kind |-> "live", value |-> Mapped(op, rows)]

\* what the operation returns: the try block's value, or the except clause's literal
FetchResult(op, rows, error) ==
    IF error # "none" \/ MappingRaises(op, rows)
    THEN [kind |-> "fallback", value |-> Fallback(op)]
    ELSE [kind |-> "live", value |-> Mapped(op, rows)]

-----------------------------------------------------------------------------
(* services/db.py: DatabaseService.get_connection / execute_query and the   *)
(* fetch operations, one step per call into the database driver             *)

\* the rows the queries may return
NullKpiRow ==
    [total_customers |-> None, churned_customers |-> None, churn_rate |-> None,
     retention_rate |-> None, total_revenue |-> None, revenue_at_risk |-> None]

KpiRows ==
    {NullKpiRow}
    \cup {[total_customers |-> PyInt(n), churned_customers |-> PyInt(0),
           churn_rate |-> PyDec(18, 50), retention_rate |-> PyDec(81, 50),
           total_revenue |-> tr, revenue_at_risk |-> PyDec(0, 50)] :
              n \in 0..MaxCount, tr \in {None, PyDec(0, 0), PyDec(MaxWhole, 50)}}

SegmentRows ==
    {[customer_segment |-> s, customer_count |-> PyInt(1), churn_rate |-> cr,
      avg_revenue |-> ar, revenue_at_risk |-> PyDec(1, 50)] :
         s \in {"Retail", "SME"}, cr \in {None, PyDec(19, 0)}, ar \in {None, PyDec(2, 25)}}

RegionRows ==
    {[region |-> r, customer_count |-> PyInt(1), churn_rate |-> PyDec(25, 0),
      total_revenue |-> tr, revenue_at_risk |-> PyDec(1, 50)] :
         r \in {"South", "West"}, tr \in {None, PyDec(2, 25)}}

RevenueRows ==
    {[acquisition_channel |-> c, channel_revenue |-> v] :
         c \in {"Online", "Store"}, v \in {None, PyDec(2, 25)}}

ChurnReasonRows ==
    {[churn_reason |-> r, affected_customers |-> PyInt(1), percentage |-> PyDec(50, 0)] :
         r \in {"Service Quality Issues", "Competitive Pricing"}}

\* the sequences of at most n rows of R
RECURSIVE RowSeqs(_, _)
RowSeqs(R, n) ==
    IF n = 0 THEN {<<>>}
    ELSE LET shorter == RowSeqs(R, n - 1)
         IN  shorter \cup {Append(s, r) : s \in shorter, r \in R}

\* GROUP BY returns one row per key
DistinctKeys(rows, key) ==
    \A i, j \in 1..Len(rows) : rows[i][key] = rows[j][key] => i = j

QueryResults(op) ==
    CASE op = "fetch_kpis" -> RowSeqs(KpiRows, 1)
      [] op = "fetch_segment_data" ->
            {s \in RowSeqs(SegmentRows, MaxRows) : DistinctKeys(s, "customer_segment")}
      [] op = "fetch_regional_data" ->
            {s \in RowSeqs(RegionRows, MaxRows) : DistinctKeys(s, "region")}
      [] op = "fetch_revenue_breakdown" ->
            {s \in RowSeqs(RevenueRows, MaxRows) : DistinctKeys(s, "acquisition_channel")}
      [] op = "fetch_churn_reasons" ->
            {s \in RowSeqs(ChurnReasonRows, MaxRows) : DistinctKeys(s, "churn_reason")}
      [] OTHER -> {}

NoResult == [kind |-> "none", value |-> <<>>]

\* the state outside db.py
llm_route_derive == <<llm_vars, route_vars, derive_vars, build_vars, cache_vars,
                      hist_vars, frame_vars>>

\* a fetch operation is called: get_db_service, execute_query, get_connection
\* up to psycopg2.connect
Fetch(op) ==
    /\ db_pc = "idle"
    /\ n_fetches < MaxFetches
    /\ db_service' = TRUE
    /\ db_op' = op
    /\ conn' = "None"
    /\ conn_log' = <<>>
    /\ db_error' = "none"
    /\ db_rows' = <<>>
    /\ db_result' = NoResult
    /\ db_pc' = "connect"
    /\ UNCHANGED <<open_connections, n_fetches, llm_route_derive>>

\* line 32: psycopg2.connect returns a connection; the body of the with runs next
ConnectOk ==
    /\ db_pc = "connect"
    /\ conn' = "open"
    /\ conn_log' = Append(conn_log, "connect")
    /\ open_connections' = open_connections + 1
    /\ db_pc' = "query"
    /\ UNCHANGED <<db_service, db_op, db_error, db_rows, db_result, n_fetches,
                   llm_route_derive>>

\* line 32 raises: conn stays None, so lines 36 and 41 skip rollback and close,
\* and line 39 re-raises to the fetch operation
ConnectFails ==
    /\ db_pc = "connect"
    /\ db_error' = "OperationalError"
    /\ db_pc' = "finish"
    /\ UNCHANGED <<db_service, db_op, conn, conn_log, open_connections, db_rows,
                   db_result, n_fetches, llm_route_derive>>

\* lines 47-49: cursor, execute and fetchall succeed; the generator resumes at commit
QueryOk(rows) ==
    /\ db_pc = "query"
    /\ db_rows' = rows
    /\ db_pc' = "commit"
    /\ UNCHANGED <<db_service, db_op, conn, conn_log, open_connections, db_error,
                   db_result, n_fetches, llm_route_derive>>

\* lines 47-49 raise: the exception is thrown into the generator at the yield
QueryFails ==
    /\ db_pc = "query"
    /\ db_error' = "ProgrammingError"
    /\ db_pc' = "rollback"
    /\ UNCHANGED <<db_service, db_op, conn, conn_log, open_connections, db_rows,
                   db_result, n_fetches, llm_route_derive>>

\* line 34: conn.commit() returns
CommitOk ==
    /\ db_pc = "commit"
    /\ conn_log' = Append(conn_log, "commit")
    /\ db_pc' = "close"
    /\ UNCHANGED <<db_service, db_op, conn, open_connections, db_error, db_rows,
                   db_result, n_fetches, llm_route_derive>>

\* Mutant: commit is outside the try, so its error skips the except clause.
CommitFailsSkipsRollback ==
    /\ db_pc = "commit"
    /\ conn_log' = Append(conn_log, "commit")
    /\ db_error' = "CommitError"
    /\ db_pc' = "close"
    /\ UNCHANGED <<db_service, db_op, conn, open_connections, db_rows, db_result,
                   n_fetches, llm_route_derive>>

\* line 34 raises inside the try: the except clause runs
CommitFails ==
    /\ db_pc = "commit"
    /\ conn_log' = Append(conn_log, "commit")
    /\ db_error' = "CommitError"
    /\ db_pc' = "rollback"
    /\ UNCHANGED <<db_service, db_op, conn, open_connections, db_rows, db_result,
                   n_fetches, llm_route_derive>>

\* lines 36-39: conn.rollback() returns and the caught exception is re-raised
RollbackOk ==
    /\ db_pc = "rollback"
    /\ conn_log' = Append(conn_log, "rollback")
    /\ db_pc' = "close"
    /\ UNCHANGED <<db_service, db_op, conn, open_connections, db_error, db_rows,
                   db_result, n_fetches, llm_route_derive>>

\* Mutant: close follows rollback in the except clause instead of a finally clause.
RollbackFailsSkipsClose ==
    /\ db_pc = "rollback"
    /\ conn_log' = Append(conn_log, "rollback")
    /\ db_error' = "RollbackError"
    /\ db_pc' = "finish"
    /\ UNCHANGED <<db_service, db_op, conn, open_connections, db_rows, db_result,
                   n_fetches, llm_route_derive>>

\* line 37 raises: that exception propagates instead
RollbackFails ==
    /\ db_pc = "rollback"
    /\ conn_log' = Append(conn_log, "rollback")
    /\ db_error' = "RollbackError"
    /\ db_pc' = "close"
    /\ UNCHANGED <<db_service, db_op, conn, open_connections, db_rows, db_result,
                   n_fetches, llm_route_derive>>

\* lines 40-42: the finally clause closes the connection
Close ==
    /\ db_pc = "close"
    /\ conn' = "closed"
    /\ conn_log' = Append(conn_log, "close")
    /\ open_connections' = open_connections - 1
    /\ db_pc' = "finish"
    /\ UNCHANGED <<db_service, db_op, db_error, db_rows, db_result, n_fetches,
                   llm_route_derive>>

\* the objects of heap that a call of op returned
HeldFrom(op) == {i \in 1..Len(heap) : heap[i].op = op}

\* how many of them the caller has written to
MutatedFrom(op) == Cardinality({i \in HeldFrom(op) : heap[i].writes > 0})

\* a return statement whose expression is a list or dict display: the display is
\* evaluated at the return, so the caller gets an object no one else holds
ReturnDisplay(op, value) ==
    /\ heap' = Append(heap, [op |-> op, value |-> value, writes |-> 0])
    /\ returns' = Append(returns, [op |-> op, value |-> value,
                                   mutated |-> MutatedFrom(op)])

\* Mutant: the return hands out one module-level object, created by the first call.
ReturnShared(op, value) ==
    IF HeldFrom(op) = {}
    THEN ReturnDisplay(op, value)
    ELSE /\ heap' = heap
         /\ returns' = Append(returns, [op |-> op,
                                        value |-> heap[CHOOSE i \in HeldFrom(op) : TRUE].value,
                                        mutated |-> MutatedFrom(op)])

\* Mutant: the except clauses return module-level fallback objects.
FetchReturnsSharedFallback ==
    /\ db_pc = "finish"
    /\ db_pc' = "returned"
    /\ IF FetchResult(db_op, db_rows, db_error).kind = "fallback"
       THEN /\ ReturnShared(db_op, Fallback(db_op))
            /\ db_result' = [kind |-> "fallback", value |-> returns'[Len(returns')].value]
       ELSE /\ db_result' = FetchResult(db_op, db_rows, db_error)
            /\ UNCHANGED frame_vars
    /\ UNCHANGED <<db_service, db_op, conn, conn_log, open_connections, db_error,
                   db_rows, n_fetches, llm_vars, route_vars, derive_vars, build_vars,
                   cache_vars, hist_vars>>

\* the rest of the fetch operation: the rows are mapped and returned, or the
\* except clause returns the fallback literal, a dict or list display
FetchReturns ==
    /\ db_pc = "finish"
    /\ db_result' = FetchResult(db_op, db_rows, db_error)
    /\ db_pc' = "returned"
    /\ IF db_result'.kind = "fallback"
       THEN ReturnDisplay(db_op, db_result'.value)
       ELSE UNCHANGED frame_vars
    /\ UNCHANGED <<db_service, db_op, conn, conn_log, open_connections, db_error,
                   db_rows, n_fetches, llm_vars, route_vars, derive_vars, build_vars,
                   cache_vars, hist_vars>>

\* the caller has the value
FetchDone ==
    /\ db_pc = "returned"
    /\ db_pc' = "idle"
    /\ n_fetches' = n_fetches + 1
    /\ UNCHANGED <<db_service, db_op, conn, conn_log, open_connections, db_error,
                   db_rows, db_result, llm_route_derive>>

InitDb ==
    /\ db_service = FALSE
    /\ db_pc = "idle"
    /\ db_op = "none"
    /\ conn = "None"
    /\ conn_log = <<>>
    /\ open_connections = 0
    /\ db_error = "none"
    /\ db_rows = <<>>
    /\ db_result = NoResult
    /\ n_fetches = 0

-----------------------------------------------------------------------------
(* Inputs *)

\* questions a user may type; the first four are get_suggested_questions()
SampleQuestions ==
    {"Why is churn happening?",
     "How is revenue generated?",
     "Which segments are at risk?",
     "Best retention strategies?",
     "Why is churn happening in my region?",
     "How is the SOUTH doing?",
     "Tell me about our Customers",
     "Hello there",
     ""}

Words == {"Why", "CHURN", "Revenue", "segments", "risky", "retention",
          "STRATEGY", "regional", "South", "customers", "hello"}

\* the questions of at most n words
RECURSIVE Sentences(_)
Sentences(n) ==
    IF n = 0 THEN {""}
    ELSE LET shorter == Sentences(n - 1)
         IN  shorter \cup Words \cup {s \o " " \o w : s \in shorter \ {""}, w \in Words}

\* what the completion service may return as message content
CompletionTexts == {"", " \n ", "  Churn is 18.5% across 1.2M customers.\n", "Focus on service quality."}

\* the objects completions.create may return
Completions ==
    {[kind |-> "text", content |-> s] : s \in CompletionTexts}
    \cup {[kind |-> "null_content", content |-> ""],
          [kind |-> "no_choices", content |-> ""]}

\* the errors completions.create may raise
ApiErrors == {"AuthenticationError", "APIConnectionError", "APITimeoutError", "RateLimitError"}

\* amounts as the driver returns them: absent, NULL, an int or a Decimal of scale 2
Amounts ==
    {Absent, None}
    \cup {PyInt(w) : w \in -1..MaxWhole}
    \cup {PyDec(w, f) : w \in -1..MaxWhole, f \in {0, 50, 99}}

Counts == {Absent, None} \cup {PyInt(n) : n \in -1..MaxCount}

\* the averaged rates: absent, NULL, zero or a Decimal of scale 2
Rates == {Absent, None, PyInt(0), PyDec(18, 50)}

\* the snapshot load_kpis returns when fetch_kpis raises
DefaultKpis ==
    [total_customers   |-> PyInt(0),
     churned_customers |-> PyInt(0),
     churn_rate        |-> PyInt(0),
     retention_rate    |-> PyInt(0),
     total_revenue     |-> PyInt(0),
     revenue_at_risk   |-> PyInt(0),
     arpu              |-> Absent]

Snapshots ==
    {FallbackKpis, DefaultKpis}
    \cup {[total_customers   |-> tc,
           churned_customers |-> cc,
           churn_rate        |-> cr,
           retention_rate    |-> rr,
           total_revenue     |-> tr,
           revenue_at_risk   |-> rar,
           arpu              |-> Absent] :
              tc \in Counts, cc \in {Absent, None, PyInt(0), PyInt(1)},
              cr \in Rates, rr \in Rates, tr \in Amounts, rar \in Amounts}

\* the metrics the pipeline embeds in a prompt
PipelineSnapshots ==
    {FallbackKpis,
     [total_customers   |-> PyInt(2),
      churned_customers |-> PyInt(1),
      churn_rate        |-> PyDec(50, 0),
      retention_rate    |-> PyDec(50, 0),
      total_revenue     |-> PyDec(1, 50),
      revenue_at_risk   |-> PyDec(2, 99),
      arpu              |-> PyDec(0, 75)]}

-----------------------------------------------------------------------------
(* services/llm.py: LLMService *)

NoService == [created |-> FALSE, provider |-> "None", groq_client |-> FALSE]

\* Mutant: the provider is set before the client is constructed.
NewServiceProviderFirst(ctor_raises) ==
    IF USE_GROQ /\ GROQ_API_KEY
    THEN [created |-> TRUE, provider |-> "groq", groq_client |-> ~ctor_raises]
    ELSE [created |-> TRUE, provider |-> "None", groq_client |-> FALSE]

\* LLMService.__init__; ctor_raises: the Groq constructor raised
NewService(ctor_raises) ==
    IF USE_GROQ /\ GROQ_API_KEY
    THEN IF ctor_raises
         THEN [created |-> TRUE, provider |-> "None", groq_client |-> FALSE]
         ELSE [created |-> TRUE, provider |-> "groq", groq_client |-> TRUE]
    ELSE [created |-> TRUE, provider |-> "None", groq_client |-> FALSE]

\* get_llm_service
GetLlmService(ctor_raises) ==
    IF llm_service.created THEN llm_service ELSE NewService(ctor_raises)

\* entry of a get_llm_response(p) call
StartCall(p, ctor_raises) ==
    /\ pc = "idle"
    /\ n_calls < MaxCalls
    /\ llm_service' = GetLlmService(ctor_raises)
    /\ prompt' = p
    /\ response' = NoText
    /\ steps' = <<"START">>
    /\ groq_invocations' = 0
    /\ groq_outcome' = "none"
    /\ pc' = "START"
    /\ constructions' = IF llm_service.created THEN constructions ELSE constructions + 1
    /\ UNCHANGED <<USE_GROQ, GROQ_API_KEY, n_calls, route_vars, derive_vars, db_vars,
                   build_vars, cache_vars, call_log, frame_vars>>

\* get_llm_response called with a text directly
GetLlmResponse(p, ctor_raises) ==
    /\ StartCall(p, ctor_raises)
    /\ pipeline' = FALSE
    /\ question' = NoText

\* answer(question): the prompt is built from the derived metrics and the question
Answer(q, kpis, ctor_raises) ==
    /\ StartCall(ai_retention_prompt(q, calculate_derived_metrics(kpis)), ctor_raises)
    /\ pipeline' = TRUE
    /\ question' = q

\* generate_response: dispatch on self.provider
GenerateResponse ==
    /\ pc = "START"
    /\ IF llm_service.provider = "groq"
       THEN /\ pc' = "DELEGATING"
            /\ groq_invocations' = groq_invocations + 1
       ELSE /\ pc' = "LOCAL"
            /\ groq_invocations' = groq_invocations
    /\ steps' = Append(steps, pc')
    /\ UNCHANGED <<USE_GROQ, GROQ_API_KEY, llm_service, question, prompt, response,
                   n_calls, pipeline, groq_outcome, route_vars, derive_vars, db_vars,
                   build_vars, cache_vars, hist_vars, frame_vars>>

\* Mutant: _groq_response does not catch, so generate_response's handler answers.
GroqRaisesApology(e) ==
    /\ pc = "DELEGATING"
    /\ groq_outcome' = e
    /\ response' = "I'm having trouble connecting right now. Please try again!"
    /\ pc' = "DONE"
    /\ steps' = Append(steps, pc')
    /\ UNCHANGED <<USE_GROQ, GROQ_API_KEY, llm_service, question, prompt,
                   groq_invocations, n_calls, pipeline, route_vars, derive_vars, db_vars,
                   build_vars, cache_vars, hist_vars, frame_vars>>

\* Mutant: a failed completion is tried again.
GroqRaisesRetry(e) ==
    /\ pc = "DELEGATING"
    /\ groq_outcome' = e
    /\ groq_invocations' = groq_invocations + 1
    /\ pc' = "DELEGATING"
    /\ steps' = Append(steps, pc')
    /\ UNCHANGED <<USE_GROQ, GROQ_API_KEY, llm_service, question, prompt, response,
                   n_calls, pipeline, route_vars, derive_vars, db_vars,
                   build_vars, cache_vars, hist_vars, frame_vars>>

\* Mutant: a failed completion turns the service local-only.
GroqRaisesGoesLocal(e) ==
    /\ pc = "DELEGATING"
    /\ groq_outcome' = e
    /\ llm_service' = [llm_service EXCEPT !.provider = "None"]
    /\ pc' = "LOCAL"
    /\ steps' = Append(steps, pc')
    /\ UNCHANGED <<USE_GROQ, GROQ_API_KEY, question, prompt, response,
                   groq_invocations, n_calls, pipeline, route_vars, derive_vars, db_vars,
                   build_vars, cache_vars, hist_vars, frame_vars>>

\* _groq_response: completions.create raises e
GroqRaises(e) ==
    /\ pc = "DELEGATING"
    /\ groq_outcome' = e
    /\ pc' = "LOCAL"
    /\ steps' = Append(steps, pc')
    /\ UNCHANGED <<USE_GROQ, GROQ_API_KEY, llm_service, question, prompt, response,
                   groq_invocations, n_calls, pipeline, route_vars, derive_vars, db_vars,
                   build_vars, cache_vars, hist_vars, frame_vars>>

\* _groq_response: completions.create returns c; choices[0].message.content.strip()
\* raises IndexError without choices and AttributeError on a null content
GroqReturns(c) ==
    /\ pc = "DELEGATING"
    /\ groq_outcome' = c.kind
    /\ IF c.kind = "text"
       THEN /\ response' = Strip(c.content)
            /\ pc' = "DONE"
       ELSE /\ response' = response
            /\ pc' = "LOCAL"
    /\ steps' = Append(steps, pc')
    /\ UNCHANGED <<USE_GROQ, GROQ_API_KEY, llm_service, question, prompt,
                   groq_invocations, n_calls, pipeline, route_vars, derive_vars, db_vars,
                   build_vars, cache_vars, hist_vars, frame_vars>>

\* the prompts the calls below are made with
Prompts ==
    SampleQuestions
    \cup {ai_retention_prompt(q, calculate_derived_metrics(k)) :
              q \in SampleQuestions, k \in PipelineSnapshots}

\* _fallback_response on each of them, evaluated once
FallbackAnswers == [p \in Prompts |-> FallbackResponse(p)]

\* return self._fallback_response(prompt)
FallbackRouting ==
    /\ pc = "LOCAL"
    /\ response' = FallbackAnswers[prompt]
    /\ pc' = "DONE"
    /\ steps' = Append(steps, pc')
    /\ UNCHANGED <<USE_GROQ, GROQ_API_KEY, llm_service, question, prompt,
                   groq_invocations, n_calls, pipeline, groq_outcome, route_vars, derive_vars, db_vars,
                   build_vars, cache_vars, hist_vars, frame_vars>>

\* get_llm_response returns response to its caller
Return ==
    /\ pc = "DONE"
    /\ pc' = "idle"
    /\ n_calls' = n_calls + 1
    /\ call_log' = Append(call_log, IF groq_outcome \in {"none", "text"}
                                    THEN groq_outcome
                                    ELSE "failed")
    /\ UNCHANGED <<USE_GROQ, GROQ_API_KEY, llm_service, question, prompt, response, steps,
                   groq_invocations, pipeline, groq_outcome, route_vars, derive_vars, db_vars,
                   build_vars, cache_vars, constructions, frame_vars>>

GroqCompletes == (\E e \in ApiErrors : GroqRaises(e)) \/ (\E c \in Completions : GroqReturns(c))

\* the sessions of the dashboard, each running main.py in its own thread
Sessions == {"s1", "s2"}

NoEntry == [value |-> <<>>, expires |-> 0]

InitBuild ==
    /\ build_question = NoText
    /\ build_kpis = FallbackKpis
    /\ built = NoText
    /\ build_pc = "input"

InitCache ==
    /\ now = 0
    /\ kpis_cache = NoEntry
    /\ cache_lock = "free"
    /\ load_pc = [s \in Sessions |-> "idle"]
    /\ load_result = [s \in Sessions |-> [value |-> <<>>, fetched |-> FALSE]]
    /\ load_called = [s \in Sessions |-> [at |-> 0, seen |-> 0]]
    /\ fills = <<>>
    /\ fetch_log = <<>>

InitHist == constructions = 0 /\ call_log = <<>>

InitFrames == heap = <<>> /\ returns = <<>>

InitLlm ==
    /\ llm_service = NoService
    /\ pc = "idle"
    /\ question = NoText
    /\ prompt = NoText
    /\ response = NoText
    /\ steps = <<>>
    /\ groq_invocations = 0
    /\ n_calls = 0
    /\ pipeline = FALSE
    /\ groq_outcome = "none"

InitRoute == text = NoText /\ routed = NoText /\ route_pc = "input"

InitDerive == kpis_in = FallbackKpis /\ metrics = FallbackKpis /\ derive_pc = "input"

Init ==
    /\ USE_GROQ \in BOOLEAN
    /\ GROQ_API_KEY \in BOOLEAN
    /\ InitLlm
    /\ InitRoute
    /\ InitDerive
    /\ InitDb
    /\ InitBuild
    /\ InitCache
    /\ InitHist
    /\ InitFrames

Next ==
    \/ \E p \in SampleQuestions, b \in BOOLEAN : GetLlmResponse(p, b)
    \/ \E q \in SampleQuestions, k \in PipelineSnapshots, b \in BOOLEAN : Answer(q, k, b)
    \/ GenerateResponse
    \/ \E e \in ApiErrors : GroqRaises(e)
    \/ \E c \in Completions : GroqReturns(c)
    \/ FallbackRouting
    \/ Return

Spec == Init /\ [][Next]_vars

\* the call is synchronous and the transport times out: every step is eventually taken
FairSpec ==
    /\ Spec
    /\ WF_vars(GenerateResponse)
    /\ WF_vars(GroqCompletes)
    /\ WF_vars(FallbackRouting)

-----------------------------------------------------------------------------
(* _fallback_response applied to a text *)

Texts == Sentences(MaxWords) \cup SampleQuestions

Route ==
    /\ route_pc = "input"
    /\ routed' = FallbackResponse(text)
    /\ route_pc' = "output"
    /\ UNCHANGED <<text, llm_vars, derive_vars, db_vars,
                   build_vars, cache_vars, hist_vars, frame_vars>>

InitTexts ==
    /\ USE_GROQ = FALSE
    /\ GROQ_API_KEY = FALSE
    /\ InitLlm
    /\ InitDerive
    /\ InitDb
    /\ InitBuild
    /\ InitCache
    /\ InitHist
    /\ InitFrames
    /\ text \in Texts
    /\ routed = NoText
    /\ route_pc = "input"

NextRoute == Route

SpecRoute == InitTexts /\ [][NextRoute]_vars

-----------------------------------------------------------------------------
(* calculate_derived_metrics applied to a snapshot *)

Derive ==
    /\ derive_pc = "input"
    /\ metrics' = calculate_derived_metrics(kpis_in)
    /\ derive_pc' = "output"
    /\ UNCHANGED <<kpis_in, llm_vars, route_vars, db_vars,
                   build_vars, cache_vars, hist_vars, frame_vars>>

InitSnapshots ==
    /\ USE_GROQ = FALSE
    /\ GROQ_API_KEY = FALSE
    /\ InitLlm
    /\ InitRoute
    /\ InitDb
    /\ InitBuild
    /\ InitCache
    /\ InitHist
    /\ InitFrames
    /\ kpis_in \in Snapshots
    /\ metrics = FallbackKpis
    /\ derive_pc = "input"

NextDerive == Derive

SpecDerive == InitSnapshots /\ [][NextDerive]_vars
-----------------------------------------------------------------------------
(* The fetch operations against a database that may fail at every call *)

InitStore ==
    /\ USE_GROQ = FALSE
    /\ GROQ_API_KEY = FALSE
    /\ InitLlm
    /\ InitRoute
    /\ InitDerive
    /\ InitDb
    /\ InitBuild
    /\ InitCache
    /\ InitHist
    /\ InitFrames

NextDb ==
    \/ \E op \in FetchOps : Fetch(op)
    \/ ConnectOk
    \/ ConnectFails
    \/ \E rows \in QueryResults(db_op) : QueryOk(rows)
    \/ QueryFails
    \/ CommitOk
    \/ CommitFails
    \/ RollbackOk
    \/ RollbackFails
    \/ Close
    \/ FetchReturns
    \/ FetchDone

SpecDb == InitStore /\ [][NextDb]_vars

-----------------------------------------------------------------------------
(* Callers that keep what they were handed and write to it.  The objects   *)
(* tracked are those returned from a display: the suggested questions and  *)
(* the fallback values of the fetch operations.                            *)

MaxLists == 4
MaxWrites == 2

\* prompts.py lines 80-85: the list display
SuggestedQuestions ==
    <<"Why is churn happening?",
      "How is revenue generated?",
      "Which segments are at risk?",
      "Best retention strategies?">>

\* Mutant: the questions are one module-level list.
get_suggested_questions_shared ==
    /\ Cardinality({i \in 1..Len(returns) : returns[i].op = "get_suggested_questions"})
          < MaxLists
    /\ ReturnShared("get_suggested_questions", SuggestedQuestions)
    /\ UNCHANGED <<llm_vars, route_vars, derive_vars, db_vars, build_vars, cache_vars,
                   hist_vars>>

\* a call of get_suggested_questions()
get_suggested_questions ==
    /\ Cardinality({i \in 1..Len(returns) : returns[i].op = "get_suggested_questions"})
          < MaxLists
    /\ ReturnDisplay("get_suggested_questions", SuggestedQuestions)
    /\ UNCHANGED <<llm_vars, route_vars, derive_vars, db_vars, build_vars, cache_vars,
                   hist_vars>>

\* the operations that return a list; the others return a dict
ListOps == {"get_suggested_questions", "fetch_churn_reasons"}

\* del v[0] on a list, del v[k] on a dict
DelItem(op, v) ==
    IF op \in ListOps
    THEN Tail(v)
    ELSE LET k == CHOOSE x \in DOMAIN v : TRUE
         IN  [x \in DOMAIN v \ {k} |-> v[x]]

\* between two calls, the caller deletes an item of the i-th object it holds
CallerMutates(i) ==
    /\ db_pc = "idle"
    /\ i <= Len(heap)
    /\ heap[i].writes < MaxWrites
    /\ Cardinality(DOMAIN heap[i].value) > 1
    /\ heap' = [heap EXCEPT ![i] = [op |-> @.op, value |-> DelItem(@.op, @.value),
                                    writes |-> @.writes + 1]]
    /\ UNCHANGED <<llm_vars, route_vars, derive_vars, db_vars, build_vars, cache_vars,
                   hist_vars, returns>>

\* the fetch operations and a caller writing to the fallback values it holds
NextFrames ==
    \/ NextDb
    \/ \E i \in 1..MaxFetches : CallerMutates(i)

SpecFrames == InitStore /\ [][NextFrames]_vars

\* get_suggested_questions and a caller writing to the lists it holds
NextLists ==
    \/ get_suggested_questions
    \/ \E i \in 1..MaxLists : CallerMutates(i)

SpecLists == InitStore /\ [][NextLists]_vars

-----------------------------------------------------------------------------
(* main.py: load_kpis, memoized by st.cache_data(ttl=300).  The decorator   *)
(* keeps one entry for the argument-less function, valid while the clock is *)
(* before its expiry, and computes a missing entry under the entry's lock,  *)
(* reading the cache again once the lock is held.                           *)

\* Mutant: the entry lives for one minute.
TtlOneMinute == 300 \div 5

\* line 58: the time-to-live, in seconds
TTL == 300

\* the time that may pass between two steps
Delays == {150, 299}

CacheHit == kpis_cache # NoEntry /\ now < kpis_cache.expires

\* the rows the KPI query returns in these runs
CachedQueryResults ==
    {<<>>,
     <<NullKpiRow>>,
     <<[total_customers |-> PyInt(2), churned_customers |-> PyInt(0),
        churn_rate |-> PyDec(18, 50), retention_rate |-> PyDec(81, 50),
        total_revenue |-> PyDec(MaxWhole, 50), revenue_at_risk |-> PyDec(0, 50)]>>}

\* a session's script reaches line 149: the wrapper reads the cache
LoadKpis(s) ==
    /\ load_pc[s] = "idle"
    /\ CacheHit \/ Len(fetch_log) < MaxFetches
    /\ load_called' = [load_called EXCEPT ![s] = [at |-> now, seen |-> Len(fills)]]
    /\ IF CacheHit
       THEN /\ load_result' = [load_result EXCEPT
                                  ![s] = [value |-> kpis_cache.value, fetched |-> FALSE]]
            /\ load_pc' = [load_pc EXCEPT ![s] = "returned"]
       ELSE /\ load_result' = load_result
            /\ load_pc' = [load_pc EXCEPT ![s] = "miss"]
    /\ UNCHANGED <<now, kpis_cache, cache_lock, fills, fetch_log,
                   llm_vars, route_vars, derive_vars, db_vars, build_vars,
                   hist_vars, frame_vars>>

\* after a miss the session takes the entry's lock and reads the cache again;
\* when the entry is still missing the body of load_kpis is entered
LockAcquired(s) ==
    /\ load_pc[s] = "miss"
    /\ cache_lock = "free"
    /\ IF CacheHit
       THEN /\ load_result' = [load_result EXCEPT
                                  ![s] = [value |-> kpis_cache.value, fetched |-> FALSE]]
            /\ load_pc' = [load_pc EXCEPT ![s] = "returned"]
            /\ UNCHANGED <<cache_lock, fetch_log>>
       ELSE /\ cache_lock' = s
            /\ load_pc' = [load_pc EXCEPT ![s] = "computing"]
            /\ fetch_log' = Append(fetch_log, now)
            /\ load_result' = load_result
    /\ UNCHANGED <<now, kpis_cache, load_called, fills,
                   llm_vars, route_vars, derive_vars, db_vars, build_vars,
                   hist_vars, frame_vars>>

\* line 66: the body calls fetch_kpis
LoadKpisFetch ==
    /\ \E s \in Sessions : load_pc[s] = "computing" /\ cache_lock = s
    /\ Fetch("fetch_kpis")

\* Mutant: a fallback value is handed to the caller without being stored.
LoadKpisReturnsSkipsFallback(s) ==
    /\ load_pc[s] = "computing"
    /\ cache_lock = s
    /\ db_pc = "returned"
    /\ db_op = "fetch_kpis"
    /\ LET value == IF db_result.kind \in {"live", "fallback"}
                    THEN db_result.value
                    ELSE DefaultKpis
       IN  /\ IF db_result.kind = "fallback"
              THEN UNCHANGED <<kpis_cache, fills>>
              ELSE /\ kpis_cache' = [value |-> value, expires |-> now + TTL]
                   /\ fills' = Append(fills, [value |-> value, at |-> now])
           /\ load_result' = [load_result EXCEPT ![s] = [value |-> value, fetched |-> TRUE]]
    /\ load_pc' = [load_pc EXCEPT ![s] = "returned"]
    /\ cache_lock' = "free"
    /\ UNCHANGED <<now, load_called, fetch_log,
                   llm_vars, route_vars, derive_vars, db_vars, build_vars,
                   hist_vars, frame_vars>>

\* lines 66-77: the body returns fetch_kpis' value, or the zero snapshot had it
\* raised; the wrapper stores the value with its expiry and releases the lock
LoadKpisReturns(s) ==
    /\ load_pc[s] = "computing"
    /\ cache_lock = s
    /\ db_pc = "returned"
    /\ db_op = "fetch_kpis"
    /\ LET value == IF db_result.kind \in {"live", "fallback"}
                    THEN db_result.value
                    ELSE DefaultKpis
       IN  /\ kpis_cache' = [value |-> value, expires |-> now + TTL]
           /\ fills' = Append(fills, [value |-> value, at |-> now])
           /\ load_result' = [load_result EXCEPT ![s] = [value |-> value, fetched |-> TRUE]]
    /\ load_pc' = [load_pc EXCEPT ![s] = "returned"]
    /\ cache_lock' = "free"
    /\ UNCHANGED <<now, load_called, fetch_log,
                   llm_vars, route_vars, derive_vars, db_vars, build_vars,
                   hist_vars, frame_vars>>

\* fetch_kpis' frame is gone once load_kpis has its value
LoadKpisFetchDone ==
    /\ \A s \in Sessions : load_pc[s] # "computing"
    /\ FetchDone

\* the session's script goes on with the value
LoadKpisDone(s) ==
    /\ load_pc[s] = "returned"
    /\ load_pc' = [load_pc EXCEPT ![s] = "idle"]
    /\ load_result' = [load_result EXCEPT ![s] = [value |-> <<>>, fetched |-> FALSE]]
    /\ load_called' = [load_called EXCEPT ![s] = [at |-> 0, seen |-> 0]]
    /\ UNCHANGED <<now, kpis_cache, cache_lock, fills, fetch_log,
                   llm_vars, route_vars, derive_vars, db_vars, build_vars,
                   hist_vars, frame_vars>>

\* time passes
Tick(d) ==
    /\ now + d <= MaxTime
    /\ now' = now + d
    /\ UNCHANGED <<kpis_cache, cache_lock, load_pc, load_result, load_called, fills,
                   fetch_log, llm_vars, route_vars, derive_vars, db_vars, build_vars,
                   hist_vars, frame_vars>>

InitLoads ==
    /\ USE_GROQ = FALSE
    /\ GROQ_API_KEY = FALSE
    /\ InitLlm
    /\ InitRoute
    /\ InitDerive
    /\ InitDb
    /\ InitBuild
    /\ InitCache
    /\ InitHist
    /\ InitFrames

NextCache ==
    \/ \E s \in Sessions : LoadKpis(s)
    \/ \E s \in Sessions : LockAcquired(s)
    \/ LoadKpisFetch
    \/ ConnectOk
    \/ ConnectFails
    \/ \E rows \in CachedQueryResults : QueryOk(rows)
    \/ QueryFails
    \/ CommitOk
    \/ CommitFails
    \/ RollbackOk
    \/ RollbackFails
    \/ Close
    \/ FetchReturns
    \/ \E s \in Sessions : LoadKpisReturns(s)
    \/ LoadKpisFetchDone
    \/ \E s \in Sessions : LoadKpisDone(s)
    \/ \E d \in Delays : Tick(d)

SpecCache == InitLoads /\ [][NextCache]_vars

-----------------------------------------------------------------------------
(* ai_retention_prompt applied to a question and a snapshot *)

\* questions as typed: the generated texts, and one with surrounding whitespace
BuildQuestions == Texts \cup {" What is our ARPU?\n"}

\* the snapshots a caller may pass: fetch_kpis' values, derived metrics, an empty
\* map, and a row of NULLs
BuildSnapshots ==
    PipelineSnapshots
    \cup {calculate_derived_metrics(k) : k \in PipelineSnapshots}
    \cup {[key \in KpiKeys |-> Absent], [key \in KpiKeys |-> None]}

BuildPrompt ==
    /\ build_pc = "input"
    /\ IF PromptRaises(build_kpis)
       THEN built' = NoText /\ build_pc' = "raised"
       ELSE built' = ai_retention_prompt(build_question, build_kpis) /\ build_pc' = "output"
    /\ UNCHANGED <<build_question, build_kpis, llm_vars, route_vars, derive_vars,
                   db_vars, cache_vars, hist_vars, frame_vars>>

InitQuestions ==
    /\ USE_GROQ = FALSE
    /\ GROQ_API_KEY = FALSE
    /\ InitLlm
    /\ InitRoute
    /\ InitDerive
    /\ InitDb
    /\ InitCache
    /\ InitHist
    /\ InitFrames
    /\ build_question \in BuildQuestions
    /\ build_kpis \in BuildSnapshots
    /\ built = NoText
    /\ build_pc = "input"

NextPrompt == BuildPrompt

SpecPrompt == InitQuestions /\ [][NextPrompt]_vars

-----------------------------------------------------------------------------
(* The routing table of the LocalVariant, as the specification states it *)

\* rule i of the table on a lower-cased text t
RuleHolds(i, t) ==
    CASE i = 1 -> Contains("churn", t) /\ Contains("why", t)
      [] i = 2 -> Contains("revenue", t)
      [] i = 3 -> Contains("segment", t) \/ Contains("risk", t)
      [] i = 4 -> Contains("retention", t) \/ Contains("strateg", t)
      [] i = 5 -> Contains("region", t) \/ Contains("south", t)
      [] i = 6 -> Contains("customer", t)
      [] i = 7 -> TRUE

\* the first rule, in the order 1..7, that holds on t
FirstRule(t) ==
    CHOOSE i \in 1..7 : RuleHolds(i, t) /\ \A j \in 1..(i - 1) : ~RuleHolds(j, t)

\* the answer of branch i
BranchAnswer(i) ==
    CASE i = 1 -> ChurnDriversAnswer
      [] i = 2 -> RevenueBreakdownAnswer
      [] i = 3 -> SegmentRiskAnswer
      [] i = 4 -> RetentionStrategyAnswer
      [] i = 5 -> RegionalAnswer
      [] i = 6 -> CustomerInsightsAnswer
      [] i = 7 -> GenericOverviewAnswer

\* the answer the table gives for a text as typed
TableAnswer(t) == BranchAnswer(FirstRule(Lower(t)))

-----------------------------------------------------------------------------
(* Claims *)

\* C1: for every input text _fallback_response returns the answer of exactly one
\* of the seven branches, the first in the order 1..7 whose keyword test holds on
\* the lower-cased text; the answer is never empty; "Why is churn happening in my
\* region?" gets the churn-drivers answer, not the regional one.
C1_FirstMatchWins ==
    route_pc = "output" =>
        /\ routed = TableAnswer(text)
        /\ Cardinality({i \in 1..7 : BranchAnswer(i) = routed}) = 1
        /\ Len(routed) > 0
        /\ (text = "Why is churn happening in my region?" =>
                routed = ChurnDriversAnswer /\ routed # RegionalAnswer)

C1_Witness ==
    /\ route_pc = "output"
    /\ text = "Why is churn happening in my region?"
    /\ routed = ChurnDriversAnswer

\* C2: a question answered through the pipeline with delegation disabled gets the
\* answer the routing table gives for the raw question text alone.
C2_PipelineRoutesOnQuestion ==
    (pc = "DONE" /\ pipeline /\ llm_service.provider # "groq") =>
        response = TableAnswer(question)

\* C3: whenever the delegated completion call fails (an API error, a response
\* without choices, a null content), generate_response returns exactly the answer
\* _fallback_response gives for the same prompt.
GroqFailures == ApiErrors \cup {"null_content", "no_choices"}

C3_FailureFallsBack ==
    (groq_outcome \in GroqFailures) =>
        /\ pc \in {"LOCAL", "DONE", "idle"}
        /\ (pc \in {"DONE", "idle"} => response = FallbackResponse(prompt))

C3_Witness ==
    /\ pc = "DONE"
    /\ groq_outcome = "APITimeoutError"
    /\ prompt = "Which segments are at risk?"
    /\ response = SegmentRiskAnswer

\* C4: every generate_response call follows START -> delegated call -> DONE or
\* START -> delegated call (failed) or skipped -> local routing -> DONE, and always
\* reaches DONE; the delegated completion is invoked at most once per call and
\* local routing never precedes the delegated attempt.
CallPaths ==
    {<<"START", "DELEGATING", "DONE">>,
     <<"START", "DELEGATING", "LOCAL", "DONE">>,
     <<"START", "LOCAL", "DONE">>}

IsPrefix(s, t) == Len(s) <= Len(t) /\ SubSeq(t, 1, Len(s)) = s

C4_CallStateMachine ==
    /\ [](/\ (pc # "idle" \/ n_calls > 0 => \E path \in CallPaths : IsPrefix(steps, path))
          /\ (pc # "idle" => steps[Len(steps)] = pc)
          /\ groq_invocations <= 1)
    /\ (pc = "START" ~> pc = "DONE")

C4_Witness ==
    /\ pc = "DONE"
    /\ steps = <<"START", "DELEGATING", "LOCAL", "DONE">>
    /\ groq_invocations = 1

\* C5: when the delegating capability is unconfigured (no API key, the Groq library
\* missing, or the client constructor raised), no call invokes the completion
\* service and every answer is the _fallback_response answer for the prompt.
Unconfigured ==
    \/ ~USE_GROQ
    \/ ~GROQ_API_KEY
    \/ (llm_service.created /\ ~llm_service.groq_client)

C5_UnconfiguredStaysLocal ==
    (Unconfigured /\ llm_service.created) =>
        /\ groq_invocations = 0
        /\ pc # "DELEGATING"
        /\ groq_outcome = "none"
        /\ (pc = "DONE" => response = FallbackResponse(prompt))

C5_Witness ==
    /\ USE_GROQ
    /\ GROQ_API_KEY
    /\ llm_service.created
    /\ ~llm_service.groq_client
    /\ n_calls = 1
    /\ pc = "DONE"
    /\ response = FallbackResponse(prompt)

\* C6: get_llm_response returns a non-empty string for every prompt and every
\* outcome of the delegated call.
C6_AnswerNeverEmpty == pc = "DONE" => Len(response) > 0

\* C7: a fetch operation never raises to its caller; after a connection error, a
\* query, commit or rollback error, or an error while mapping the rows, it returns
\* the fallback literal of that operation.
C7_FetchNeverRaises ==
    db_pc = "returned" =>
        /\ db_result.kind \in {"live", "fallback"}
        /\ (db_error # "none" \/ MappingRaises(db_op, db_rows)) =>
                db_result = [kind |-> "fallback", value |-> Fallback(db_op)]

C7_Witness ==
    /\ db_pc = "returned"
    /\ db_op = "fetch_segment_data"
    /\ db_error = "none"
    /\ MappingRaises(db_op, db_rows)
    /\ db_result.value = FallbackSegments

\* C8: every connection a fetch operation opens is closed by the time the
\* operation returns, after a successful query as after a query, commit or
\* rollback error; between operations no connection is open.
C8_ConnectionsClosed ==
    /\ open_connections \in {0, 1}
    /\ (open_connections = 1) = (conn = "open")
    /\ (db_pc \in {"finish", "returned", "idle"} => open_connections = 0 /\ conn # "open")
    /\ (db_pc \in {"finish", "returned"} /\ conn_log # <<>> =>
            conn_log[Len(conn_log)] = "close")

C8_Witness ==
    /\ db_pc = "returned"
    /\ db_error = "RollbackError"
    /\ conn = "closed"
    /\ open_connections = 0

\* C9: when the segment query succeeds with zero rows, fetch_segment_data returns
\* the fallback two-entry map (Retail, SME), not an empty map.
C9_EmptySegmentsFallBack ==
    (/\ db_pc = "returned"
     /\ db_op = "fetch_segment_data"
     /\ db_error = "none"
     /\ db_rows = <<>>
     /\ conn_log = <<"connect", "commit", "close">>) =>
        db_result.value = FallbackSegments

\* C10: for every snapshot the revenue_protected returned by
\* calculate_derived_metrics is >= 0, also when revenue_at_risk > total_revenue
\* and when revenue fields are missing or null.
C10_RevenueProtectedNonNegative ==
    derive_pc = "output" => ~IsNeg(metrics.revenue_protected)

C10_Witness ==
    /\ derive_pc = "output"
    /\ kpis_in.total_revenue = None
    /\ kpis_in.revenue_at_risk = PyDec(2, 50)
    /\ metrics.revenue_protected = PyInt(0)

\* the fields of the structure calculate_derived_metrics returns
MetricFields ==
    {"total_customers", "churned_customers", "churn_rate", "retention_rate",
     "total_revenue", "revenue_at_risk", "revenue_protected", "arpu"}

\* C11: for every input snapshot, also with negative, missing or null fields,
\* every numeric field of the result of calculate_derived_metrics is >= 0.
C11_AllFieldsNonNegative ==
    derive_pc = "output" => \A field \in MetricFields : ~IsNeg(metrics[field])

\* C12: for every snapshot whose total_customers is 0, missing or null,
\* calculate_derived_metrics returns arpu = 0, the literal and not a quotient
\* (a division by that count would have raised).
C12_ZeroCustomersZeroArpu ==
    (derive_pc = "output" /\ kpis_in.total_customers \in {Absent, None, PyInt(0)}) =>
        metrics.arpu = PyInt(0)

C12_Witness ==
    /\ derive_pc = "output"
    /\ kpis_in.total_customers = None
    /\ kpis_in.total_revenue = PyDec(2, 50)
    /\ metrics.arpu = PyInt(0)

\* a value in hundredths, a missing or null one counting as 0
Hundredths(x) == IF x.k \in {"None", "Absent"} THEN 0 ELSE x.w * 100 + x.f

Magnitude(n) == IF n < 0 THEN -n ELSE n

\* C13: revenue_protected is max(total_revenue - revenue_at_risk, 0) cut to an
\* integer, and for total_customers > 0 arpu is total_revenue / total_customers
\* rounded to the nearest hundredth (a tie going to the even one); the dashboard
\* snapshot 1200000 / 222000 / 18.5 / 81.5 / 1490000000 / 289310000 yields
\* revenue_protected = 1200690000 and arpu = 1241.67.
C13_DerivedFormulas ==
    derive_pc = "output" =>
        IF kpis_in = FallbackKpis
        THEN /\ metrics.revenue_protected = PyInt(1200690000)
             /\ metrics.arpu = PyFloat(1241, 67)
        ELSE LET tr == Hundredths(kpis_in.total_revenue)
                 rar == Hundredths(kpis_in.revenue_at_risk)
                 tc == Hundredths(kpis_in.total_customers) \div 100
                 a == Hundredths(metrics.arpu)
                 off == Magnitude(a * tc - tr)
             IN  /\ metrics.revenue_protected =
                        PyInt(IF tr - rar > 0 THEN (tr - rar) \div 100 ELSE 0)
                 /\ tc > 0 => /\ 2 * off <= tc
                              /\ (2 * off = tc => a % 2 = 0)

C13_Witness ==
    /\ derive_pc = "output"
    /\ kpis_in = FallbackKpis
    /\ metrics.revenue_protected = PyInt(1200690000)
    /\ metrics.arpu = PyFloat(1241, 67)

C17_PromptEmbedsQuestion ==
    build_pc = "output" =>
        LET base == ai_retention_prompt("", build_kpis)
            k == Len(base) - Len(PromptText10)
            n == Len(build_question)
        IN  /\ Len(built) = Len(base) + n
            /\ SubSeq(built, 1, k) = SubSeq(base, 1, k)
            /\ SubSeq(built, k + 1, k + n) = build_question
            /\ SubSeq(built, k + n + 1, Len(built)) = PromptText10

C17_Witness ==
    /\ build_pc = "output"
    /\ build_question = " What is our ARPU?\n"
    /\ build_kpis = FallbackKpis
    /\ Len(built) = 1629 + Len(build_question)

\* C18: an empty question answered through the pipeline with delegation disabled
\* is not rejected and receives the generic capability-overview answer (branch 7).
C18_EmptyQuestionGetsOverview ==
    (pc = "DONE" /\ pipeline /\ llm_service.provider # "groq" /\ question = "") =>
        response = GenericOverviewAnswer

\* C19: with the delegating variant disabled, the answer to "How is revenue
\* generated?", asked directly or through the pipeline, contains "Online Channel"
\* and "$4.23B".
C19_RevenueAnswerFigures ==
    (/\ pc = "DONE"
     /\ llm_service.provider # "groq"
     /\ (IF pipeline THEN question ELSE prompt) = "How is revenue generated?") =>
        /\ Contains("Online Channel", response)
        /\ Contains("$4.23B", response)

C19_Witness ==
    /\ pc = "DONE"
    /\ ~pipeline
    /\ llm_service.provider # "groq"
    /\ prompt = "How is revenue generated?"
    /\ Contains("1. **Online Channel**: $4.23B", response)

\* C20: load_kpis is memoized for 300 seconds: a call made less than 300 s after
\* the write that filled the cache returns that write's value and fetches nothing;
\* a call made after expiry (or on an empty cache) returns the value of a later
\* write; every fetch after the first begins only once the previous write has
\* expired, so one expiry triggers one fetch, and its result is the cached value.
C20_LoadKpisMemoized ==
    /\ \A s \in Sessions : load_pc[s] = "returned" =>
          LET c == load_called[s]
          IN  IF c.seen > 0 /\ c.at < fills[c.seen].at + 300
              THEN /\ load_result[s].value = fills[c.seen].value
                   /\ ~load_result[s].fetched
              ELSE \E i \in (c.seen + 1)..Len(fills) :
                       load_result[s].value = fills[i].value
    /\ Len(fetch_log) <= Len(fills) + 1
    /\ \A j \in 2..Len(fetch_log) : fetch_log[j] >= fills[j - 1].at + 300
    /\ fills # <<>> =>
          kpis_cache = [value |-> fills[Len(fills)].value,
                        expires |-> fills[Len(fills)].at + 300]

C20_Witness ==
    /\ Len(fills) = 2
    /\ Len(fetch_log) = 2
    /\ fetch_log[2] >= fills[1].at + 300
    /\ \E s \in Sessions :
          /\ load_pc[s] = "returned"
          /\ load_called[s].seen = 2
          /\ ~load_result[s].fetched
          /\ load_result[s].value = fills[2].value

\* C21: on the live path the snapshot fetch_kpis returns has arpu =
\* total_revenue / total_customers rounded to the nearest hundredth when
\* total_customers > 0, and arpu = 0 when total_customers is 0.
C21_LiveArpu ==
    (/\ db_pc = "returned"
     /\ db_op = "fetch_kpis"
     /\ db_result.kind = "live"
     /\ db_rows # <<>>) =>
        LET tc == Hundredths(db_rows[1].total_customers) \div 100
            tr == Hundredths(db_rows[1].total_revenue)
            a == Hundredths(db_result.value.arpu)
            off == Magnitude(a * tc - tr)
        IN  IF tc > 0
            THEN 2 * off <= tc /\ (2 * off = tc => a % 2 = 0)
            ELSE a = 0

\* C24: every value fetch_kpis returns holds all seven fields with non-null
\* numeric values, whether the query returned a row, a row of NULLs, no row,
\* or failed.
C24_KpisComplete ==
    (db_pc = "returned" /\ db_op = "fetch_kpis") =>
        /\ DOMAIN db_result.value = KpiKeys
        /\ \A key \in KpiKeys : IsNum(db_result.value[key])

\* C25: the fallback snapshot fetch_kpis returns has churned_customers <=
\* total_customers, churn_rate + retention_rate = 100, 0 <= revenue_at_risk <=
\* total_revenue, and arpu = total_revenue / total_customers rounded to 2 places,
\* the arpu calculate_derived_metrics derives from it.
C25_FallbackSnapshotConsistent ==
    (db_pc = "returned" /\ db_op = "fetch_kpis" /\ db_result.kind = "fallback") =>
        LET v == db_result.value
        IN  /\ ~NumLess(v.total_customers, v.churned_customers)
            /\ Hundredths(v.churn_rate) + Hundredths(v.retention_rate) = 10000
            /\ ~IsNeg(v.revenue_at_risk)
            /\ ~NumLess(v.total_revenue, v.revenue_at_risk)
            /\ v.arpu = NumDivRound2(v.total_revenue, v.total_customers)
            /\ v.arpu = calculate_derived_metrics(v).arpu

\* the operations issued on the connection
LogHas(call) == \E i \in 1..Len(conn_log) : conn_log[i] = call

LogCount(call) == Cardinality({i \in 1..Len(conn_log) : conn_log[i] = call})

\* commit only after a body that finished without error, rollback whenever an
\* error occurred on an open connection, close once and last
ConnectionProtocol ==
    /\ LogHas("commit") =>
          /\ Len(conn_log) >= 2
          /\ conn_log[1] = "connect"
          /\ conn_log[2] = "commit"
          /\ db_error # "ProgrammingError"
    /\ LogHas("rollback") => db_error # "none"
    /\ (db_pc \in {"close", "finish", "returned"} /\ LogHas("connect") /\ db_error # "none")
          => LogHas("rollback")
    /\ LogCount("close") <= 1
    /\ LogHas("close") => conn_log[Len(conn_log)] = "close"
    /\ (db_pc \in {"finish", "returned"} /\ LogHas("connect")) => LogCount("close") = 1

\* the error the body or commit raised, as far as the log shows it
OriginalError == IF LogHas("commit") THEN "CommitError" ELSE "ProgrammingError"

\* C27 as stated: commit only if the body finished without error, rollback
\* whenever an error occurs after the connection was opened, close exactly once
\* and last, and the original error is re-raised after rollback.
C27_OriginalErrorReraised ==
    /\ ConnectionProtocol
    /\ LogHas("rollback") => db_error = OriginalError

\* C27 amended: as above, but after rollback the error propagating is the
\* original one only if rollback returned; if rollback raised, its error
\* propagates instead.
C27_ErrorAfterRollback ==
    /\ ConnectionProtocol
    /\ LogHas("rollback") => db_error \in {OriginalError, "RollbackError"}
    /\ (LogHas("rollback") /\ db_error = "RollbackError") =>
          db_pc \in {"close", "finish", "returned", "idle"}

C27_Witness ==
    /\ db_pc = "returned"
    /\ conn_log = <<"connect", "commit", "rollback", "close">>
    /\ db_error = "CommitError"

\* C23: the "Revenue Protected" figure ai_retention_prompt embeds is
\* max(total_revenue - revenue_at_risk, 0), so it is never negative, also when
\* revenue_at_risk > total_revenue.
C23_PromptRevenueProtectedClamped ==
    build_pc = "output" =>
        LET v == PromptFields(build_kpis)
            clamped == NumMax(NumSub(v.total_revenue, v.revenue_at_risk), PyInt(0))
        IN  /\ Contains("- Revenue Protected: $" \o FormatComma(clamped) \o "\n", built)
            /\ ~Contains("- Revenue Protected: $-", built)

\* C30: for every snapshot with 0 <= revenue_at_risk <= total_revenue and amounts
\* of two decimal places, the integer figures of calculate_derived_metrics satisfy
\* revenue_protected + revenue_at_risk <= total_revenue, fall short of it by at
\* most 1, and add up exactly when both input amounts are whole.
C30_DisplayFiguresAddUp ==
    (/\ derive_pc = "output"
     /\ IsNum(kpis_in.total_revenue)
     /\ IsNum(kpis_in.revenue_at_risk)
     /\ ~IsNeg(kpis_in.revenue_at_risk)
     /\ ~NumLess(kpis_in.total_revenue, kpis_in.revenue_at_risk)) =>
        LET sum == metrics.revenue_protected.w + metrics.revenue_at_risk.w
            total == metrics.total_revenue.w
        IN  /\ sum <= total
            /\ total - sum <= 1
            /\ (kpis_in.total_revenue.f = 0 /\ kpis_in.revenue_at_risk.f = 0) => sum = total

C30_Witness ==
    /\ derive_pc = "output"
    /\ kpis_in.total_revenue = PyDec(2, 0)
    /\ kpis_in.revenue_at_risk = PyDec(0, 50)
    /\ metrics.total_revenue = PyInt(2)
    /\ metrics.revenue_at_risk = PyInt(0)
    /\ metrics.revenue_protected = PyInt(1)

\* C29: a fallback snapshot that fetch_kpis substituted is cached like a live
\* value: the call that fetched it leaves it in the cache, every load_kpis call
\* made less than 300 s later returns it without a fetch, whatever the database
\* would answer by then; the all-zero default of load_kpis is never cached or
\* returned.
C29_FallbackCachedLikeLive ==
    /\ \A i \in 1..Len(fills) : fills[i].value # DefaultKpis
    /\ \A s \in Sessions : load_pc[s] = "returned" =>
          LET c == load_called[s]
          IN  /\ load_result[s].value # DefaultKpis
              /\ (load_result[s].fetched /\ load_result[s].value = FallbackKpis) =>
                    \E i \in (c.seen + 1)..Len(fills) : fills[i].value = FallbackKpis
              /\ (/\ c.seen > 0
                  /\ fills[c.seen].value = FallbackKpis
                  /\ c.at < fills[c.seen].at + 300) =>
                    /\ load_result[s].value = FallbackKpis
                    /\ ~load_result[s].fetched

C29_Witness ==
    \E s \in Sessions :
        /\ load_pc[s] = "returned"
        /\ load_called[s].seen = 1
        /\ fills[1].value = FallbackKpis
        /\ load_called[s].at > fills[1].at
        /\ load_called[s].at < fills[1].at + 300
        /\ load_result[s] = [value |-> FallbackKpis, fetched |-> FALSE]

\* the answers a returned completion can give
CompletionAnswers == {Strip(c.content) : c \in {d \in Completions : d.kind = "text"}}

\* the call in progress has passed generate_response's dispatch
Dispatched == pc \in {"DELEGATING", "LOCAL", "DONE"}

\* C28: over any sequence of get_llm_response calls one LLMService at most is
\* constructed and, once constructed, it never changes; when an earlier call's
\* delegated completion failed, the call in progress still makes its own single
\* delegated attempt; and the answer of a call is the stripped completion when
\* its own attempt returned text, and otherwise the local answer to its own prompt.
C28_ServiceConfigurationStable ==
    /\ [](/\ constructions <= 1
          /\ (Dispatched /\ \E i \in 1..Len(call_log) : call_log[i] = "failed")
                => groq_invocations = 1
          /\ pc = "DONE" =>
                IF groq_outcome = "text"
                THEN response \in CompletionAnswers
                ELSE response = FallbackAnswers[prompt])
    /\ [][llm_service.created => llm_service' = llm_service]_vars

\* a second call whose delegated completion answered after the first call's failed
C28_Witness ==
    /\ constructions = 1
    /\ Len(call_log) = 1
    /\ call_log[1] = "failed"
    /\ pc = "DONE"
    /\ groq_invocations = 1
    /\ groq_outcome = "text"
    /\ response \in CompletionAnswers

\* the returns of the calls of op, in order
ReturnsOf(op) == SelectSeq(returns, LAMBDA r : r.op = op)

\* C22: every call of get_suggested_questions returns a list of exactly four
\* questions, the same questions in the same order as every other call, whatever
\* the caller did to the lists it was handed before.
C22_SuggestedQuestionsFixed ==
    LET calls == ReturnsOf("get_suggested_questions")
    IN  \A i \in 1..Len(calls) :
            /\ Len(calls[i].value) = 4
            /\ calls[i].value = calls[1].value
            /\ \A a, b \in 1..4 : calls[i].value[a] = calls[i].value[b] => a = b

\* a second call made after the caller deleted an item of the first call's list
C22_Witness ==
    LET calls == ReturnsOf("get_suggested_questions")
    IN  /\ Len(calls) >= 2
        /\ calls[2].mutated = 1
        /\ Len(heap[1].value) = 3
        /\ calls[2].value = calls[1].value

\* C26: any two failing calls of the same fetch operation return equal values,
\* also when the caller wrote to the value of the earlier call in between.
C26_FallbackValuesImmutable ==
    \A op \in FetchOps :
        LET calls == ReturnsOf(op)
        IN  \A i, j \in 1..Len(calls) : calls[i].value = calls[j].value

\* fetch_kpis failed twice and the caller deleted an item of the first value before
\* the second call
C26_Witness ==
    LET calls == ReturnsOf("fetch_kpis")
    IN  /\ db_pc = "returned"
        /\ db_result.kind = "fallback"
        /\ Len(calls) = 2
        /\ calls[2].mutated = 1
        /\ calls[2].value = calls[1].value
        /\ db_result.value = calls[1].value

====
